---------------------------- MODULE Spec2Model ----------------------------
(***************************************************************************)
(* A model of the requirement-matching engine of the syllabus validator:   *)
(* the deterministic keyword matcher (genEdAnalyzer), the semantic batch   *)
(* matcher and fit ranker (openaiAnalyzer) and the analysis routes that     *)
(* compose them (routes).                                                   *)
(*                                                                         *)
(* Strings the code searches in or pattern-matches are tuples of           *)
(* one-character strings, so that toLowerCase, includes, split and the     *)
(* regular expressions are computed character by character.  Strings the   *)
(* code only compares for equality (requirement names, statuses) are       *)
(* TLA+ strings.                                                            *)
(***************************************************************************)
EXTENDS Integers, Sequences, FiniteSets, TLC

(***************************************************************************)
(* String primitives (JavaScript String methods used by the matchers)      *)
(***************************************************************************)

\* the lower-case letter of every upper-case letter
UpperToLower ==
    [c \in {"A","B","C","D","E","F","G","H","I","J","K","L","M",
            "N","O","P","Q","R","S","T","U","V","W","X","Y","Z"} |->
        CASE c = "A" -> "a" [] c = "B" -> "b" [] c = "C" -> "c" [] c = "D" -> "d"
          [] c = "E" -> "e" [] c = "F" -> "f" [] c = "G" -> "g" [] c = "H" -> "h"
          [] c = "I" -> "i" [] c = "J" -> "j" [] c = "K" -> "k" [] c = "L" -> "l"
          [] c = "M" -> "m" [] c = "N" -> "n" [] c = "O" -> "o" [] c = "P" -> "p"
          [] c = "Q" -> "q" [] c = "R" -> "r" [] c = "S" -> "s" [] c = "T" -> "t"
          [] c = "U" -> "u" [] c = "V" -> "v" [] c = "W" -> "w" [] c = "X" -> "x"
          [] c = "Y" -> "y" [] c = "Z" -> "z"]

IsUpper(c) == c \in DOMAIN UpperToLower

IsDigit(c) == c \in {"0","1","2","3","4","5","6","7","8","9"}

\* \s of a regular expression
IsSpace(c) == c \in {" ", "\n", "\t"}

LowerChar(c) == IF IsUpper(c) THEN UpperToLower[c] ELSE c

\* String.prototype.toLowerCase (the concatenation makes the result a tuple)
toLowerCase(s) == [i \in 1..Len(s) |-> LowerChar(s[i])] \o <<>>

\* text occurs at position i of s
MatchesAt(s, i, pat) ==
    /\ i + Len(pat) - 1 <= Len(s)
    /\ \A j \in 1..Len(pat) : s[i + j - 1] = pat[j]

\* String.prototype.includes
includes(s, pat) ==
    \/ Len(pat) = 0
    \/ \E i \in 1..(Len(s) - Len(pat) + 1) : s[i] = pat[1] /\ MatchesAt(s, i, pat)

\* String.prototype.trim
RECURSIVE trim(_)
trim(s) ==
    IF Len(s) = 0 THEN s
    ELSE IF IsSpace(Head(s)) THEN trim(Tail(s))
    ELSE IF IsSpace(s[Len(s)]) THEN trim(SubSeq(s, 1, Len(s) - 1))
    ELSE s

IsSeparator(c) == c = ":" \/ c = "-" \/ IsSpace(c)

\* the character classes of the two regular expressions
InClass(class, c) ==
    CASE class = "upper" -> IsUpper(c)
      [] class = "digit" -> IsDigit(c)
      [] class = "space" -> IsSpace(c)
      [] class = "separator" -> IsSeparator(c)
      [] class = "word" -> ~IsSpace(c)

\* length of the run of characters of a class that starts at position p
RECURSIVE RunLength(_, _, _)
RunLength(s, p, class) ==
    IF p > Len(s) THEN 0
    ELSE IF ~InClass(class, s[p]) THEN 0
    ELSE 1 + RunLength(s, p + 1, class)

\* pattern.split(/\s+/) restricted to its non-empty pieces: the maximal runs of
\* non-whitespace characters, in order (the empty pieces split produces at the
\* ends are dropped by the caller's length filter)
splitWhitespace(s) ==
    LET starts == {i \in 1..Len(s) : ~IsSpace(s[i]) /\ (i = 1 \/ IsSpace(s[i - 1]))}
        EndOf(i) == i + RunLength(s, i, "word") - 1
        StartNo(n) == CHOOSE i \in starts : Cardinality({x \in starts : x < i}) = n - 1
    IN  [n \in 1..Cardinality(starts) |-> SubSeq(s, StartNo(n), EndOf(StartNo(n)))]

\* the number of non-overlapping matches among the match positions, left to right
RECURSIVE CountFrom(_, _, _)
CountFrom(positions, from, len) ==
    LET rest == {i \in positions : i >= from}
    IN  IF rest = {} THEN 0
        ELSE 1 + CountFrom(positions, (CHOOSE i \in rest : \A j \in rest : i <= j) + len, len)

\* text.match(new RegExp(pat, 'gi')).length for a pattern without special
\* characters (0 for no match): letter case is ignored
countMatches(s, pat) ==
    LET text == toLowerCase(s)
        p == toLowerCase(pat)
    IN  CountFrom({i \in 1..(Len(text) - Len(p) + 1) : text[i] = p[1] /\ MatchesAt(text, i, p)},
                  1, Len(p))

RECURSIVE Concat(_)
Concat(ss) == IF Len(ss) = 0 THEN <<>> ELSE Head(ss) \o Concat(Tail(ss))

RECURSIVE SumSeq(_)
SumSeq(ns) == IF Len(ns) = 0 THEN 0 ELSE Head(ns) + SumSeq(Tail(ns))

\* the elements of a sequence
Range(seq) == {seq[i] : i \in DOMAIN seq}

(***************************************************************************)
(* The requirement catalog.  Four entries of genEdRequirements verbatim    *)
(* and one synthetic entry with five required elements and five SLOs.      *)
(***************************************************************************)

QuantitativeReasoning ==
  [name |-> "Quantitative Reasoning",
   slos |-> <<
     <<"I","n","t","e","r","p","r","e","t"," ","q","u","a","n","t","i","t","a","t","i","v","e"," ",
            "i","n","f","o","r","m","a","t","i","o","n",".">>,
     <<"U","s","e"," ","q","u","a","n","t","i","t","a","t","i","v","e"," ","m","e","t","h","o","d",
            "s"," ","t","o"," ","s","o","l","v","e"," ","p","r","o","b","l","e","m","s",".">>,
     <<"D","e","v","e","l","o","p"," ","c","o","n","c","l","u","s","i","o","n","s"," ","b","a","s",
            "e","d"," ","o","n"," ","q","u","a","n","t","i","t","a","t","i","v","e"," ","a","n","a","l",
            "y","s","i","s",".">> >>,
   requiredElements |-> <<
     <<"M","a","t","h","e","m","a","t","i","c","a","l"," ","o","r"," ","s","t","a","t","i","s","t",
            "i","c","a","l"," ","m","e","t","h","o","d","s">>,
     <<"Q","u","a","n","t","i","t","a","t","i","v","e"," ","p","r","o","b","l","e","m","-","s","o",
            "l","v","i","n","g">>,
     <<"D","a","t","a"," ","a","n","a","l","y","s","i","s"," ","c","o","m","p","o","n","e","n","t",
            "s">>,
     <<"D","r","a","w","i","n","g"," ","c","o","n","c","l","u","s","i","o","n","s"," ","f","r","o",
            "m"," ","a","n","a","l","y","s","i","s">> >>]

ModernLanguage ==
  [name |-> "Modern Language",
   slos |-> <<
     <<"I","n","t","e","r","p","r","e","t"," ","i","n","f","o","r","m","a","t","i","o","n"," ","i",
            "n"," ","a","u","t","h","e","n","t","i","c"," ","m","e","s","s","a","g","e","s"," ","a","n",
            "d"," ","i","n","f","o","r","m","a","t","i","o","n","a","l"," ","t","e","x","t","s"," ","u",
            "s","i","n","g"," ","l","i","s","t","e","n","i","n","g",","," ","r","e","a","d","i","n","g",
            ","," ","a","n","d"," ","v","i","e","w","i","n","g"," ","s","t","r","a","t","e","g","i","e",
            "s",".">>,
     <<"I","n","t","e","r","a","c","t"," ","w","i","t","h"," ","o","t","h","e","r","s"," ","u","s",
            "i","n","g"," ","c","u","l","t","u","r","a","l","l","y"," ","a","p","p","r","o","p","r","i",
            "a","t","e"," ","l","a","n","g","u","a","g","e"," ","a","n","d"," ","g","e","s","t","u","r",
            "e","s",".">>,
     <<"P","r","e","s","e","n","t"," ","m","e","a","n","i","n","g","f","u","l"," ","i","n","f","o",
            "r","m","a","t","i","o","n",","," ","c","o","n","c","e","p","t","s"," ","a","n","d"," ","v",
            "i","e","w","p","o","i","n","t","s",".">>,
     <<"C","o","m","p","a","r","e"," ","s","o","c","i","a","l"," ","p","r","a","c","t","i","c","e",
            "s"," ","f","r","o","m"," ","t","h","e","i","r"," ","o","w","n"," ","c","u","l","t","u","r",
            "e"," ","r","e","l","a","t","i","v","e"," ","t","o"," ","t","h","o","s","e"," ","f","r","o",
            "m"," ","a","n","o","t","h","e","r"," ","c","u","l","t","u","r","e",".">> >>,
   requiredElements |-> <<
     <<"L","a","n","g","u","a","g","e"," ","i","n","s","t","r","u","c","t","i","o","n">>,
     <<"C","u","l","t","u","r","a","l"," ","c","o","m","p","o","n","e","n","t","s">>,
     <<"C","o","m","m","u","n","i","c","a","t","i","o","n"," ","p","r","a","c","t","i","c","e">>,
     <<"A","u","t","h","e","n","t","i","c"," ","l","a","n","g","u","a","g","e"," ","m","a","t","e",
            "r","i","a","l","s">> >>]

CreativityAndMaking ==
  [name |-> "Creativity and Making",
   slos |-> <<
     <<"G","e","n","e","r","a","t","e"," ","m","u","l","t","i","p","l","e"," ","a","p","p","r","o",
            "a","c","h","e","s"," ","t","o"," ","p","r","o","b","l","e","m","s"," ","t","h","r","o","u",
            "g","h"," ","c","r","e","a","t","i","v","e"," ","t","h","i","n","k","i","n","g",".">>,
     <<"D","e","s","i","g","n"," ","a"," ","p","r","o","c","e","s","s"," ","f","o","r"," ","i","t",
            "e","r","a","t","i","v","e"," ","c","r","e","a","t","i","v","e"," ","p","r","o","b","l","e",
            "m","-","s","o","l","v","i","n","g",".">>,
     <<"P","r","o","d","u","c","e"," ","a"," ","c","r","e","a","t","i","v","e"," ","w","o","r","k",
            " ","t","h","r","o","u","g","h"," ","a","n"," ","i","t","e","r","a","t","i","v","e",","," ",
            "r","e","f","l","e","c","t","i","v","e"," ","p","r","o","c","e","s","s",".">>,
     <<"E","v","a","l","u","a","t","e"," ","t","h","e"," ","w","a","y"," ","t","h","e","i","r"," ",
            "c","r","e","a","t","i","v","e"," ","w","o","r","k"," ","b","o","t","h"," ","i","n","f","l",
            "u","e","n","c","e","s"," ","a","n","d"," ","i","s"," ","i","n","f","l","u","e","n","c","e",
            "d"," ","b","y"," ","o","t","h","e","r","s",".">> >>,
   requiredElements |-> <<
     <<"C","r","e","a","t","i","v","e"," ","p","r","o","c","e","s","s"," ","d","e","v","e","l","o",
            "p","m","e","n","t">>,
     <<"I","t","e","r","a","t","i","v","e"," ","m","a","k","i","n","g"," ","p","r","a","c","t","i",
            "c","e","s">>,
     <<"R","e","f","l","e","c","t","i","v","e"," ","e","v","a","l","u","a","t","i","o","n">>,
     <<"C","o","l","l","a","b","o","r","a","t","i","v","e"," ","c","r","e","a","t","i","o","n">>,
     <<"I","n","n","o","v","a","t","i","v","e"," ","p","r","o","b","l","e","m","-","s","o","l","v",
            "i","n","g">> >>]

Ethics ==
  [name |-> "Ethics",
   slos |-> <<
     <<"I","d","e","n","t","i","f","y"," ","a","n","d"," ","e","x","p","l","a","i","n"," ","p","h",
            "i","l","o","s","o","p","h","i","c","a","l"," ","t","h","e","o","r","i","e","s"," ","o","f",
            " ","e","t","h","i","c","s",".">>,
     <<"A","n","a","l","y","z","e"," ","e","t","h","i","c","a","l"," ","d","i","m","e","n","s","i",
            "o","n","s"," ","o","f"," ","c","o","n","t","e","m","p","o","r","a","r","y"," ","i","s","s",
            "u","e","s",".">>,
     <<"A","p","p","l","y"," ","m","o","r","a","l"," ","r","e","a","s","o","n","i","n","g"," ","t",
            "o"," ","c","o","m","p","l","e","x"," ","s","i","t","u","a","t","i","o","n","s",".">>,
     <<"A","r","t","i","c","u","l","a","t","e"," ","a","n","d"," ","d","e","f","e","n","d"," ","e",
            "t","h","i","c","a","l"," ","p","o","s","i","t","i","o","n","s"," ","u","s","i","n","g"," ",
            "p","h","i","l","o","s","o","p","h","i","c","a","l"," ","r","e","a","s","o","n","i","n","g",
            ".">> >>,
   requiredElements |-> <<
     <<"E","t","h","i","c","a","l"," ","t","h","e","o","r","y"," ","e","x","a","m","i","n","a","t",
            "i","o","n">>,
     <<"M","o","r","a","l"," ","r","e","a","s","o","n","i","n","g"," ","a","p","p","l","i","c","a",
            "t","i","o","n">>,
     <<"C","o","n","t","e","m","p","o","r","a","r","y"," ","e","t","h","i","c","a","l"," ","i","s",
            "s","u","e","s">>,
     <<"P","h","i","l","o","s","o","p","h","i","c","a","l"," ","a","n","a","l","y","s","i","s">>,
     <<"V","a","l","u","e","s"," ","e","v","a","l","u","a","t","i","o","n">> >>]

\* the synthetic requirement of the threshold test: 5 required elements, 5 SLOs
SyntheticRequirement ==
  [name |-> "Synthetic Requirement",
   slos |-> <<
     <<"E","x","p","l","a","i","n"," ","a","l","p","h","a"," ","r","e","s","u","l","t","s",".">>,
     <<"A","p","p","l","y"," ","b","r","a","v","o"," ","m","o","d","e","l","s",".">>,
     <<"C","o","m","p","a","r","e"," ","c","h","a","r","l","i","e"," ","o","u","t","c","o","m","e",
            "s",".">>,
     <<"D","e","f","e","n","d"," ","d","e","l","t","a"," ","c","l","a","i","m","s",".">>,
     <<"P","r","e","s","e","n","t"," ","e","c","h","o"," ","f","i","n","d","i","n","g","s",".">> >>,
   requiredElements |-> <<
     <<"A","l","p","h","a"," ","c","o","m","p","o","n","e","n","t">>,
     <<"B","r","a","v","o"," ","c","o","m","p","o","n","e","n","t">>,
     <<"C","h","a","r","l","i","e"," ","w","e","e","k","l","y"," ","r","e","v","i","e","w"," ","s",
            "e","s","s","i","o","n">>,
     <<"D","e","l","t","a"," ","l","a","b","o","r","a","t","o","r","y">>,
     <<"E","c","h","o"," ","f","i","e","l","d","w","o","r","k">> >>]

genEdRequirements ==
    <<QuantitativeReasoning, ModernLanguage, CreativityAndMaking, Ethics, SyntheticRequirement>>

CatalogNames == {genEdRequirements[i].name : i \in DOMAIN genEdRequirements}

(***************************************************************************)
(* The deterministic matcher (genEdAnalyzer.ts)                            *)
(***************************************************************************)

creativeContentIndicators == <<
    <<"c","r","e","a","t","i","v","e"," ","w","r","i","t","i","n","g">>, <<"t","h","e","a","t","e","r">>, <<"d","e","s","i","g","n">>, <<"v","i","s","u","a","l"," ","a","r","t">>, <<"s","t","u","d","i","o">>,
    <<"w","o","r","k","s","h","o","p">>, <<"p","o","r","t","f","o","l","i","o">>, <<"e","x","h","i","b","i","t","i","o","n">>, <<"p","e","r","f","o","r","m","a","n","c","e">>, <<"a","r","t","i","s","t","i","c">>,
    <<"s","c","u","l","p","t","u","r","e">>, <<"p","a","i","n","t","i","n","g">>, <<"d","r","a","w","i","n","g">>, <<"f","i","l","m">>, <<"p","h","o","t","o","g","r","a","p","h","y">>, <<"d","a","n","c","e">>,
    <<"m","u","s","i","c"," ","c","o","m","p","o","s","i","t","i","o","n">>, <<"c","r","e","a","t","i","v","e"," ","p","r","o","j","e","c","t">> >>

\* creativeContentScore < 10 force-rejects "Creativity and Making"
CreativeScoreThreshold == 10

CreativityMissingText ==
    <<"M","o","r","e"," ","t","h","a","n"," ","h","a","l","f"," ","o","f"," ","c","o","u","r","s",
            "e"," ","c","o","n","t","e","n","t"," ","m","u","s","t"," ","b","e"," ","d","e","d","i","c",
            "a","t","e","d"," ","t","o"," ","c","r","e","a","t","i","v","e"," ","a","c","t","i","v","i",
            "t","i","e","s">>

\* faulty variant that C24 tells apart: the test without "keywords.length > 0"
keywordPatternMatchOfNoKeyword(text, pattern) ==
    LET IsLong(k) == Len(k) > 3
        IsInText(k) == includes(text, k)
        keywords == SelectSeq(splitWhitespace(pattern), IsLong)
        matchingKeywords == SelectSeq(keywords, IsInText)
    IN  10 * Len(matchingKeywords) >= 7 * Len(keywords)

\* keywordPatternMatch: at least 70% of the words longer than 3 characters occur in the text
keywordPatternMatch(text, pattern) ==
    LET IsLong(k) == Len(k) > 3
        IsInText(k) == includes(text, k)
        keywords == SelectSeq(splitWhitespace(pattern), IsLong)
        matchingKeywords == SelectSeq(keywords, IsInText)
    IN  /\ Len(keywords) > 0
        /\ 10 * Len(matchingKeywords) >= 7 * Len(keywords)

\* the presence test applied to a required element or an SLO
isPresent(normalizedText, str) ==
    LET strLower == toLowerCase(str)
    IN  includes(normalizedText, strLower) \/ keywordPatternMatch(normalizedText, strLower)

\* Math.ceil(n * 0.6): the double product n * 0.6 rounds to the exact integer when
\* 5 divides n, so the result is the least integer k with 10k >= 6n
CeilSixtyPercent(n) == (6 * n + 9) \div 10

\* faulty variant that C3 tells apart: either threshold is enough
meetsEitherThreshold(nMatchingReqs, nElements, nMatchingSLOs, nSLOs) ==
    \/ nMatchingReqs >= CeilSixtyPercent(nElements)
    \/ nMatchingSLOs >= CeilSixtyPercent(nSLOs)

meetsMinimumRequirements(nMatchingReqs, nElements, nMatchingSLOs, nSLOs) ==
    /\ nMatchingReqs >= CeilSixtyPercent(nElements)
    /\ nMatchingSLOs >= CeilSixtyPercent(nSLOs)

creativeContentScore(normalizedText) ==
    SumSeq([i \in DOMAIN creativeContentIndicators |->
               countMatches(normalizedText, creativeContentIndicators[i])])

\* faulty variant that C4 tells apart: the override also fires at the threshold itself
creativityOverrideInclusive(requirement, score) ==
    requirement.name = "Creativity and Making" /\ score <= CreativeScoreThreshold

\* the Creativity override applies to this requirement on this text
creativityOverride(requirement, score) ==
    requirement.name = "Creativity and Making" /\ score < CreativeScoreThreshold

\* The locals of one iteration of the loop over genEdRequirements, after the
\* required elements and the SLOs were checked and the creative terms counted
requirementLocals(normalizedText, requirement) ==
    LET indices == [j \in 1..Len(requirement.slos) |-> j]
        found == [j \in 1..Len(requirement.slos) |->
                      isPresent(normalizedText, requirement.slos[j])] \o <<>>
        ElementPresent(e) == isPresent(normalizedText, e)
        SloPresent(n) == found[n]
        SloMissing(n) == ~found[n]
    IN  [name |-> requirement.name,
         matchingReqs |-> SelectSeq(requirement.requiredElements, ElementPresent),
         matchingSLOs |-> SelectSeq(indices, SloPresent),
         missingSLOs |-> SelectSeq(indices, SloMissing),
         creativeContentScore |->
             IF requirement.name = "Creativity and Making"
             THEN creativeContentScore(normalizedText) ELSE 0]

\* faulty variant that C1 tells apart: the override branch without its "continue"
pushRequirementNoContinue(requirement, locals) ==
    LET NotMatching(req) ==
            \A k \in DOMAIN locals.matchingReqs : locals.matchingReqs[k] # req
        meets == meetsMinimumRequirements(
                     Len(locals.matchingReqs), Len(requirement.requiredElements),
                     Len(locals.matchingSLOs), Len(requirement.slos))
        override == creativityOverride(requirement, locals.creativeContentScore)
    IN  [approved |->
             IF meets
             THEN <<[name |-> requirement.name,
                     matchingRequirements |-> locals.matchingReqs,
                     matchingSLOs |-> locals.matchingSLOs]>>
             ELSE <<>>,
         rejected |->
             (IF override
              THEN <<[name |-> requirement.name,
                      missingRequirements |-> <<CreativityMissingText>>,
                      missingSLOs |-> locals.missingSLOs]>>
              ELSE <<>>)
             \o (IF meets THEN <<>>
                 ELSE <<[name |-> requirement.name,
                         missingRequirements |->
                             SelectSeq(requirement.requiredElements, NotMatching),
                         missingSLOs |-> locals.missingSLOs]>>)]

\* faulty variant that C25 tells apart: a rejected entry lists every required element
pushRequirementAllMissing(requirement, locals) ==
    LET meets == meetsMinimumRequirements(
                     Len(locals.matchingReqs), Len(requirement.requiredElements),
                     Len(locals.matchingSLOs), Len(requirement.slos))
    IN  IF creativityOverride(requirement, locals.creativeContentScore)
        THEN [approved |-> <<>>,
              rejected |-> <<[name |-> requirement.name,
                              missingRequirements |-> <<CreativityMissingText>>,
                              missingSLOs |-> locals.missingSLOs]>>]
        ELSE IF meets
        THEN [approved |-> <<[name |-> requirement.name,
                              matchingRequirements |-> locals.matchingReqs,
                              matchingSLOs |-> locals.matchingSLOs]>>,
              rejected |-> <<>>]
        ELSE [approved |-> <<>>,
              rejected |-> <<[name |-> requirement.name,
                              missingRequirements |-> requirement.requiredElements,
                              missingSLOs |-> locals.missingSLOs]>>]

\* The rest of the iteration: the entries it pushes to approvedRequirements and
\* to rejectedRequirements
pushRequirement(requirement, locals) ==
    LET NotMatching(req) ==
            \A k \in DOMAIN locals.matchingReqs : locals.matchingReqs[k] # req
        meets == meetsMinimumRequirements(
                     Len(locals.matchingReqs), Len(requirement.requiredElements),
                     Len(locals.matchingSLOs), Len(requirement.slos))
    IN  IF creativityOverride(requirement, locals.creativeContentScore)
        THEN \* push to rejectedRequirements, then continue with the next requirement
             [approved |-> <<>>,
              rejected |-> <<[name |-> requirement.name,
                              missingRequirements |-> <<CreativityMissingText>>,
                              missingSLOs |-> locals.missingSLOs]>>]
        ELSE IF meets
        THEN [approved |-> <<[name |-> requirement.name,
                              matchingRequirements |-> locals.matchingReqs,
                              matchingSLOs |-> locals.matchingSLOs]>>,
              rejected |-> <<>>]
        ELSE [approved |-> <<>>,
              rejected |-> <<[name |-> requirement.name,
                              missingRequirements |->
                                  SelectSeq(requirement.requiredElements, NotMatching),
                              missingSLOs |-> locals.missingSLOs]>>]

\* the loop of analyzeGenEdRequirements over the catalog, from requirement i on
RECURSIVE AnalyzeFrom(_, _, _)
AnalyzeFrom(normalizedText, i, acc) ==
    IF i > Len(genEdRequirements) THEN acc
    ELSE LET locals == requirementLocals(normalizedText, genEdRequirements[i])
             pushed == pushRequirement(genEdRequirements[i], locals)
         IN  AnalyzeFrom(normalizedText, i + 1,
                 [approvedRequirements |-> acc.approvedRequirements \o pushed.approved,
                  rejectedRequirements |-> acc.rejectedRequirements \o pushed.rejected,
                  locals |-> Append(acc.locals, locals)])

UnnamedCourse == <<"U","n","n","a","m","e","d"," ","C","o","u","r","s","e">>

\* the least element of a set of positions
FirstOf(positions) == CHOOSE p \in positions : \A q \in positions : p <= q

\* /([A-Z]{2,4})\s*(\d{3,4})[A-Z]?/ matches at position p: 2 to 4 letters (a longer
\* run of capitals cannot match from its start), any whitespace, at least 3 digits
CourseCodeMatchesAt(s, p) ==
    LET letters == RunLength(s, p, "upper")
        spaces == RunLength(s, p + letters, "space")
        digits == RunLength(s, p + letters + spaces, "digit")
    IN  letters >= 2 /\ letters <= 4 /\ digits >= 3

\* `${match[1]} ${match[2]}` for the match that starts at p
courseCodeAt(s, p) ==
    LET letters == RunLength(s, p, "upper")
        d == p + letters + RunLength(s, p + letters, "space")
    IN  SubSeq(s, p, p + letters - 1) \o <<" ">>
        \o SubSeq(s, d, d + (IF RunLength(s, d, "digit") >= 4 THEN 4 ELSE 3) - 1)

\* the capture of (.*?)\n from position g on: the text up to the next newline
courseNameFrom(s, g, courseCode) ==
    LET newlines == {n \in g..Len(s) : s[n] = "\n"}
        found == SubSeq(s, g, FirstOf(newlines) - 1)
    IN  IF newlines = {} THEN [name |-> UnnamedCourse, code |-> courseCode]
        ELSE [name |-> IF Len(found) > 0 THEN trim(found) ELSE UnnamedCourse,
              code |-> courseCode]

\* the match of new RegExp(`${courseCode}[:\s-]*(.*?)\n`, 'i'): the first occurrence
\* of the code, letter case ignored, and the separators after it
courseNameAfter(s, lower, courseCode) ==
    LET occurrences == {q \in 1..Len(lower) : MatchesAt(lower, q, toLowerCase(courseCode))}
        e == FirstOf(occurrences) + Len(courseCode)
    IN  IF occurrences = {} THEN [name |-> UnnamedCourse, code |-> courseCode]
        ELSE courseNameFrom(s, e + RunLength(s, e, "separator"), courseCode)

\* faulty variant that C17 tells apart: no placeholder name without a course code
extractCourseInfoNoPlaceholder(syllabusText) ==
    LET starts == {p \in 1..Len(syllabusText) : CourseCodeMatchesAt(syllabusText, p)}
    IN  IF starts = {} THEN [name |-> <<>>, code |-> <<>>]
        ELSE courseNameAfter(syllabusText, toLowerCase(syllabusText),
                             courseCodeAt(syllabusText, FirstOf(starts)))

\* extractCourseInfo: the first course-code match, then the text between the first
\* occurrence of the rebuilt code and the next newline
extractCourseInfo(syllabusText) ==
    LET starts == {p \in 1..Len(syllabusText) : CourseCodeMatchesAt(syllabusText, p)}
    IN  IF starts = {} THEN [name |-> UnnamedCourse, code |-> <<>>]
        ELSE courseNameAfter(syllabusText, toLowerCase(syllabusText),
                             courseCodeAt(syllabusText, FirstOf(starts)))

\* the calls of analyzeGenEdRequirements a caller has made in a row, each with its
\* text and the result it returned
VARIABLE detLog

\* faulty variant that C18 tells apart: the course name extracted by a call is kept
\* in a module-level variable and returned by the next call
analyzeGenEdRequirementsStale(syllabusText) ==
    LET normalizedText == toLowerCase(syllabusText)
        courseInfo == extractCourseInfo(syllabusText)
        lists == AnalyzeFrom(normalizedText, 1,
                     [approvedRequirements |-> <<>>, rejectedRequirements |-> <<>>, locals |-> <<>>])
    IN  [courseName |-> IF detLog = <<>> THEN courseInfo.name
                        ELSE extractCourseInfo(detLog[Len(detLog)].text).name,
         courseCode |-> courseInfo.code,
         approvedRequirements |-> lists.approvedRequirements,
         rejectedRequirements |-> lists.rejectedRequirements,
         locals |-> lists.locals]

\* analyzeGenEdRequirements: the result returned for a syllabus text (locals: the
\* loop's per-requirement locals, kept beside the result for the properties)
analyzeGenEdRequirements(syllabusText) ==
    LET normalizedText == toLowerCase(syllabusText)
        courseInfo == extractCourseInfo(syllabusText)
        lists == AnalyzeFrom(normalizedText, 1,
                     [approvedRequirements |-> <<>>, rejectedRequirements |-> <<>>, locals |-> <<>>])
    IN  [courseName |-> courseInfo.name,
         courseCode |-> courseInfo.code,
         approvedRequirements |-> lists.approvedRequirements,
         rejectedRequirements |-> lists.rejectedRequirements,
         locals |-> lists.locals]

(***************************************************************************)
(* Syllabus texts: a subset of the fragments below, one per line, followed  *)
(* by a number of mentions of "film".                                       *)
(***************************************************************************)

\* the largest number of "film" mentions appended to a text
MaxFilmMentions == 4

Fragments == <<
    \* 1: three required elements and two SLOs of Quantitative Reasoning
    <<"M","a","t","h","e","m","a","t","i","c","a","l"," ","o","r"," ","s","t","a","t","i","s","t",
            "i","c","a","l"," ","m","e","t","h","o","d","s",","," ","q","u","a","n","t","i","t","a","t",
            "i","v","e"," ","p","r","o","b","l","e","m","-","s","o","l","v","i","n","g",","," ","d","a",
            "t","a"," ","a","n","a","l","y","s","i","s"," ","c","o","m","p","o","n","e","n","t","s",".",
            " ","I","n","t","e","r","p","r","e","t"," ","q","u","a","n","t","i","t","a","t","i","v","e",
            " ","i","n","f","o","r","m","a","t","i","o","n","."," ","U","s","e"," ","q","u","a","n","t",
            "i","t","a","t","i","v","e"," ","m","e","t","h","o","d","s"," ","t","o"," ","s","o","l","v",
            "e"," ","p","r","o","b","l","e","m","s",".">>,
    \* 2: three required elements of Creativity and Making
    <<"C","r","e","a","t","i","v","e"," ","p","r","o","c","e","s","s"," ","d","e","v","e","l","o",
            "p","m","e","n","t",","," ","i","t","e","r","a","t","i","v","e"," ","m","a","k","i","n","g",
            " ","p","r","a","c","t","i","c","e","s"," ","a","n","d"," ","r","e","f","l","e","c","t","i",
            "v","e"," ","e","v","a","l","u","a","t","i","o","n">>,
    \* 3: three SLOs of Creativity and Making (one creative term: design)
    <<"D","e","s","i","g","n"," ","a"," ","p","r","o","c","e","s","s"," ","f","o","r"," ","i","t",
            "e","r","a","t","i","v","e"," ","c","r","e","a","t","i","v","e"," ","p","r","o","b","l","e",
            "m","-","s","o","l","v","i","n","g","."," ","P","r","o","d","u","c","e"," ","a"," ","c","r",
            "e","a","t","i","v","e"," ","w","o","r","k"," ","t","h","r","o","u","g","h"," ","a","n"," ",
            "i","t","e","r","a","t","i","v","e",","," ","r","e","f","l","e","c","t","i","v","e"," ","p",
            "r","o","c","e","s","s","."," ","G","e","n","e","r","a","t","e"," ","m","u","l","t","i","p",
            "l","e"," ","a","p","p","r","o","a","c","h","e","s"," ","t","o"," ","p","r","o","b","l","e",
            "m","s"," ","t","h","r","o","u","g","h"," ","c","r","e","a","t","i","v","e"," ","t","h","i",
            "n","k","i","n","g",".">>,
    \* 4: five creative terms
    <<"T","h","e","a","t","e","r"," ","w","o","r","k","s","h","o","p",","," ","s","t","u","d","i",
            "o"," ","p","o","r","t","f","o","l","i","o"," ","a","n","d"," ","D","a","n","c","e",".">>,
    \* 5: two required elements of the synthetic requirement
    <<"A","l","p","h","a"," ","c","o","m","p","o","n","e","n","t"," ","a","n","d"," ","b","r","a",
            "v","o"," ","c","o","m","p","o","n","e","n","t">>,
    \* 6: a third required element of the synthetic requirement, by its words only
    <<"w","e","e","k","l","y"," ","r","e","v","i","e","w"," ","s","e","s","s","i","o","n"," ","a",
            "b","o","u","t"," ","c","h","a","r","l","i","e">>,
    \* 7: two SLOs of the synthetic requirement
    <<"E","x","p","l","a","i","n"," ","a","l","p","h","a"," ","r","e","s","u","l","t","s","."," ",
            "A","p","p","l","y"," ","b","r","a","v","o"," ","m","o","d","e","l","s",".">>,
    \* 8: a third SLO of the synthetic requirement
    <<"c","o","m","p","a","r","e"," ","c","h","a","r","l","i","e"," ","o","u","t","c","o","m","e",
            "s",".">> >>

RECURSIVE Repeat(_, _)
Repeat(s, n) == IF n = 0 THEN <<>> ELSE s \o Repeat(s, n - 1)

\* the text made of the chosen fragments, in order, and n mentions of "film"
TextOf(chosen, n) ==
    Concat([i \in DOMAIN Fragments |-> IF i \in chosen THEN Fragments[i] \o <<"\n">> ELSE <<>>])
    \o Repeat(<<"f","i","l","m"," ">>, n)

SyllabusTexts == {TextOf(chosen, n) : chosen \in SUBSET DOMAIN Fragments, n \in 0..MaxFilmMentions}

(***************************************************************************)
(* The semantic matcher (openaiAnalyzer.ts).  A completion call either      *)
(* throws or returns a content; the content either fails JSON.parse or is   *)
(* the parsed value.  An optional field of a parsed value is a record       *)
(* [present, value].                                                        *)
(***************************************************************************)

\* the batch size of analyzeWithOpenAI
batchSize == 3

Absent == [present |-> FALSE, value |-> <<>>]
Present(v) == [present |-> TRUE, value |-> v]

\* value || fallback for a string or an array: undefined and "" are falsy, an array is not
OrElse(field, fallback) ==
    IF field.present /\ Len(field.value) > 0 THEN field.value ELSE fallback
OrEmptyArray(field) == IF field.present THEN field.value ELSE <<>>

UnknownCourse == <<"U","n","k","n","o","w","n"," ","C","o","u","r","s","e">>

\* faulty variant that C13 tells apart: a failed call leaves the name and the code empty
extractCourseInfoWithAINoPlaceholder(response) ==
    IF response.kind = "json"
    THEN [name |-> OrElse(response.courseName, UnknownCourse),
          code |-> OrElse(response.courseCode, <<>>)]
    ELSE [name |-> <<>>, code |-> <<>>]

\* extractCourseInfoWithAI: the course information for a completion response
extractCourseInfoWithAI(response) ==
    IF response.kind = "json"
    THEN [name |-> OrElse(response.courseName, UnknownCourse),
          code |-> OrElse(response.courseCode, <<>>)]
    ELSE \* the call threw, or JSON.parse did: caught
         [name |-> UnknownCourse, code |-> <<>>]

PhilosophyExplanation ==
    <<"C","o","u","r","s","e"," ","m","u","s","t"," ","b","e"," ","p","r","i","m","a","r","i","l",
            "y"," ","a"," ","p","h","i","l","o","s","o","p","h","y"," ","c","o","u","r","s","e"," ","t",
            "a","u","g","h","t"," ","i","n"," ","a"," ","p","h","i","l","o","s","o","p","h","y"," ","d",
            "e","p","a","r","t","m","e","n","t">>
LanguageExplanation ==
    <<"C","o","u","r","s","e"," ","m","u","s","t"," ","e","x","p","l","i","c","i","t","l","y"," ",
            "f","o","c","u","s"," ","o","n"," ","t","e","a","c","h","i","n","g"," ","s","t","u","d","e",
            "n","t","s"," ","t","o"," ","c","o","m","m","u","n","i","c","a","t","e"," ","i","n"," ","a",
            " ","n","o","n","-","E","n","g","l","i","s","h"," ","l","a","n","g","u","a","g","e">>
CreativityExplanation ==
    <<"M","o","r","e"," ","t","h","a","n"," ","5","0","%"," ","o","f"," ","t","h","e"," ","c","o",
            "u","r","s","e"," ","m","u","s","t"," ","b","e"," ","d","e","d","i","c","a","t","e","d"," ",
            "t","o"," ","c","r","e","a","t","i","v","e"," ","w","r","i","t","i","n","g",","," ","t","h",
            "e","a","t","e","r",","," ","d","e","s","i","g","n",","," ","o","r"," ","v","i","s","u","a",
            "l"," ","a","r","t","s">>

SomeIncludes(strings, phrase) == \E k \in DOMAIN strings : includes(strings[k], phrase)

\* faulty variant that C20 tells apart: the explanation is appended whether or not
\* a returned element already carries the marker phrase
extendedMissingRequirementsAlways(item) ==
    LET missing == OrEmptyArray(item.missingElements)
    IN  IF item.requirement \in {"Ethics", "Ethical Reasoning"}
        THEN Append(missing, PhilosophyExplanation)
        ELSE IF item.requirement = "Modern Language"
        THEN Append(missing, LanguageExplanation)
        ELSE IF item.requirement = "Creativity and Making"
        THEN Append(missing, CreativityExplanation)
        ELSE missing

\* the missing requirements of a NOT MET item, with the explanation of its special rule
extendedMissingRequirements(item) ==
    LET missing == OrEmptyArray(item.missingElements)
        ethics ==
            IF /\ item.requirement \in {"Ethics", "Ethical Reasoning"}
               /\ ~SomeIncludes(missing, <<"p","h","i","l","o","s","o","p","h","y"," ","d","e","p","a","r","t","m","e","n","t">>)
            THEN Append(missing, PhilosophyExplanation) ELSE missing
        language ==
            IF /\ item.requirement = "Modern Language"
               /\ ~SomeIncludes(ethics, <<"n","o","n","-","E","n","g","l","i","s","h"," ","l","a","n","g","u","a","g","e">>)
            THEN Append(ethics, LanguageExplanation) ELSE ethics
    IN  IF /\ item.requirement = "Creativity and Making"
           /\ ~SomeIncludes(language, <<"m","o","r","e"," ","t","h","a","n"," ","h","a","l","f">>)
        THEN Append(language, CreativityExplanation) ELSE language

\* the entry one item of a batch response becomes
approvedEntryOf(item) ==
    [name |-> item.requirement,
     matchingRequirements |-> OrEmptyArray(item.matchingElements),
     matchingSLOs |-> OrEmptyArray(item.matchingSLOs)]

rejectedEntryOf(item) ==
    [name |-> item.requirement,
     missingRequirements |-> extendedMissingRequirements(item),
     missingSLOs |-> OrEmptyArray(item.missingSLOs)]

\* faulty variant that C28 tells apart: the entries made before the item on which
\* the loop throws are kept
processRequirementsBatchKeepingPartial(response) ==
    IF response.kind # "json" \/ ~response.results.present
    THEN [threw |-> TRUE, approved |-> <<>>, rejected |-> <<>>]
    ELSE LET all == response.results.value
             bad == {k \in DOMAIN all : ~all[k].isObject}
             items == IF bad = {} THEN all
                      ELSE SubSeq(all, 1, (CHOOSE k \in bad : \A j \in bad : k <= j) - 1)
             IsMet(item) == item.status = "MET"
             IsNotMet(item) == item.status # "MET"
             met == SelectSeq(items, IsMet)
             notMet == SelectSeq(items, IsNotMet)
         IN  [threw |-> FALSE,
              approved |-> [k \in DOMAIN met |-> approvedEntryOf(met[k])],
              rejected |-> [k \in DOMAIN notMet |-> rejectedEntryOf(notMet[k])]]

\* processRequirementsBatch: what the call does for a completion response; threw
\* when the call, JSON.parse or the loop over result.results throws (a result
\* without results, an item that is null), and then nothing is returned
processRequirementsBatch(response) ==
    IF response.kind # "json" \/ ~response.results.present
    THEN [threw |-> TRUE, approved |-> <<>>, rejected |-> <<>>]
    ELSE LET items == response.results.value
             IsMet(item) == item.status = "MET"
             IsNotMet(item) == item.status # "MET"
             met == SelectSeq(items, IsMet)
             notMet == SelectSeq(items, IsNotMet)
         IN  IF \E k \in DOMAIN items : ~items[k].isObject
             THEN [threw |-> TRUE, approved |-> <<>>, rejected |-> <<>>]
             ELSE [threw |-> FALSE,
                   approved |-> [k \in DOMAIN met |-> approvedEntryOf(met[k])],
                   rejected |-> [k \in DOMAIN notMet |-> rejectedEntryOf(notMet[k])]]

\* Array.prototype.slice(begin, end) for 0 <= begin <= end, positions counted from 0
slice(array, begin, end) ==
    SubSeq(array, begin + 1, IF end < Len(array) THEN end ELSE Len(array))

\* genEdRequirements.slice(i, i + batchSize)
requirementsBatch(i) == slice(genEdRequirements, i, i + batchSize)

\* the values the loop variable i takes in "for (let i = 0; i < n; i += batchSize)"
RECURSIVE batchStartsFrom(_, _)
batchStartsFrom(i, n) ==
    IF i < n THEN <<i>> \o batchStartsFrom(i + batchSize, n) ELSE <<>>

batchStarts(n) == batchStartsFrom(0, n)

\* faulty variant that C7 tells apart: a failed batch defaults its requirements to rejected
pushBatchDefaultingToRejected(lists, i, outcome) ==
    IF outcome.threw
    THEN [approved |-> lists.approved,
          rejected |-> lists.rejected \o
              [k \in DOMAIN requirementsBatch(i) |->
                  [name |-> requirementsBatch(i)[k].name,
                   missingRequirements |-> requirementsBatch(i)[k].requiredElements,
                   missingSLOs |-> <<>>]]]
    ELSE [approved |-> lists.approved \o outcome.approved,
          rejected |-> lists.rejected \o outcome.rejected]

\* faulty variant that C23 tells apart: a failed batch discards what the batches
\* before it added
pushBatchResettingOnFailure(lists, i, outcome) ==
    IF outcome.threw
    THEN [approved |-> <<>>, rejected |-> <<>>]
    ELSE [approved |-> lists.approved \o outcome.approved,
          rejected |-> lists.rejected \o outcome.rejected]

\* the try/catch around one batch in analyzeWithOpenAI: the lists after the batch
\* that starts at requirement i
pushBatch(lists, i, outcome) ==
    IF outcome.threw
    THEN lists    \* "Continue with next batch instead of failing the entire process"
    ELSE [approved |-> lists.approved \o outcome.approved,
          rejected |-> lists.rejected \o outcome.rejected]

ExtractionError == <<"E","r","r","o","r"," ","e","x","t","r","a","c","t","i","n","g"," ","S","t","u","d","e","n",
            "t"," ","L","e","a","r","n","i","n","g"," ","O","u","t","c","o","m","e","s"," ","f","r","o",
            "m"," ","s","y","l","l","a","b","u","s",".">>
NoOutcomesFound == <<"N","o"," ","c","l","e","a","r"," ","S","t","u","d","e","n","t"," ","L","e","a","r","n","i",
            "n","g"," ","O","u","t","c","o","m","e","s"," ","c","o","u","l","d"," ","b","e"," ","i","d",
            "e","n","t","i","f","i","e","d"," ","i","n"," ","t","h","e"," ","s","y","l","l","a","b","u",
            "s",".">>

\* extractSyllabusLearningOutcomes: the text handed to the ranking prompt
extractSyllabusLearningOutcomes(response) ==
    IF response.kind # "content" THEN ExtractionError    \* the call threw: caught
    ELSE IF ~response.content.present THEN NoOutcomesFound
    ELSE IF Len(trim(response.content.value)) < 10 THEN NoOutcomesFound
    ELSE response.content.value

NoFits == [bestFit |-> Absent, potentialFits |-> <<>>, poorFits |-> <<>>]

\* faulty variant that C9 tells apart: a second best fit is dropped instead of leading potentialFits
reshapeFitsDroppingSecond(result) ==
    LET bestFits == OrEmptyArray(result.bestFits)
    IN  [bestFit |-> IF Len(bestFits) > 0 THEN Present(bestFits[1]) ELSE Absent,
         potentialFits |-> OrEmptyArray(result.potentialFits),
         poorFits |-> OrEmptyArray(result.poorFits)]

\* the object determineRequirementFits returns for a parsed ranking response
reshapeFits(result) ==
    LET bestFits == OrEmptyArray(result.bestFits)
    IN  [bestFit |-> IF Len(bestFits) > 0 THEN Present(bestFits[1]) ELSE Absent,
         potentialFits |->
             (IF Len(bestFits) > 1 THEN <<bestFits[2]>> ELSE <<>>)
             \o OrEmptyArray(result.potentialFits),
         poorFits |-> OrEmptyArray(result.poorFits)]

\* faulty variant that C8 tells apart: a failed extraction makes the ranker give up
rankFitsGivingUpOnExtraction(extractedSLOs, response) ==
    IF extractedSLOs = ExtractionError THEN NoFits
    ELSE IF response.kind # "json" THEN NoFits
    ELSE IF \E k \in DOMAIN OrEmptyArray(response.bestFits) :
                ~OrEmptyArray(response.bestFits)[k].hasSLOLists
    THEN NoFits
    ELSE reshapeFits(response)

\* determineRequirementFits after the extraction: the result for a ranking response.
\* The call or JSON.parse throwing, and the log line reading matchingSLOs.length of a
\* best fit that has no such array, all end in the catch block.
rankFits(extractedSLOs, response) ==
    IF response.kind # "json" THEN NoFits
    ELSE IF \E k \in DOMAIN OrEmptyArray(response.bestFits) :
                ~OrEmptyArray(response.bestFits)[k].hasSLOLists
    THEN NoFits
    ELSE reshapeFits(response)

(***************************************************************************)
(* Completion responses                                                    *)
(***************************************************************************)

\* the largest number of items a batch response carries beyond one per requirement
MaxExtraItems == 1
\* the largest number of entries of bestFits in a ranking response
MaxBestFits == 2

\* all sequences over a set, up to a length
SeqsUpTo(S, n) == UNION {[1..k -> S] : k \in 0..n}

NoRankResponse ==
    [kind |-> "none", bestFits |-> Absent, potentialFits |-> Absent, poorFits |-> Absent]

\* The responses an action draws from depend on a level: "down" is the service
\* failing every call, "up" the service answering every call as asked, "small" a
\* few answers and "full" every answer within the bounds.
CourseInfoResponses(level) ==
    (IF level # "up"
     THEN {[kind |-> "throws", courseName |-> Absent, courseCode |-> Absent]} ELSE {})
    \cup (IF level # "down"
          THEN {[kind |-> "json", courseName |-> Present(<<"I","n","t","r","o"," ","t","o"," ","E","t","h","i","c","s">>),
                 courseCode |-> Present(<<"P","H","I","L"," ","1","0","1">>)]}
          ELSE {})
    \cup (IF level \in {"small", "full"}
          THEN {[kind |-> "unparsable", courseName |-> Absent, courseCode |-> Absent]} ELSE {})
    \cup (IF level = "full"
          THEN {[kind |-> "json", courseName |-> n, courseCode |-> c] :
                   n \in {Absent, Present(<<>>), Present(<<"I","n","t","r","o"," ","t","o"," ","E","t","h","i","c","s">>)},
                   c \in {Absent, Present(<<>>), Present(<<"P","H","I","L"," ","1","0","1">>)}}
          ELSE {})

\* an item of a batch response about a requirement of the catalog
ItemOf(requirement, status) ==
    [isObject |-> TRUE, requirement |-> requirement.name, status |-> status,
     matchingElements |-> IF status = "MET" THEN Present(<<requirement.requiredElements[1]>>) ELSE Absent,
     matchingSLOs |-> IF status = "MET" THEN Present(<<1>>) ELSE Absent,
     missingElements |-> IF status = "MET" THEN Absent ELSE Present(<<requirement.requiredElements[2]>>),
     missingSLOs |-> IF status = "MET" THEN Absent ELSE Present(<<2>>)]

\* an item whose SLO numbers are not numbers of SLOs of the requirement
ItemOutOfRange(requirement, status) ==
    [ItemOf(requirement, status) EXCEPT
        !.matchingSLOs = IF status = "MET" THEN Present(<<Len(requirement.slos) + 1>>)
                         ELSE Absent,
        !.missingSLOs = IF status = "MET" THEN Absent ELSE Present(<<0>>)]

\* a missing element in the service's own words that speaks of the special rule
\* of a requirement (for the other requirements, of a rule that is not theirs)
ElementAboutRule(name) ==
    CASE name = "Ethics" -> <<"N","o","t"," ","h","o","u","s","e","d"," ","i","n"," ","a"," ","p","h","i","l","o","s","o",
            "p","h","y"," ","d","e","p","a","r","t","m","e","n","t">>
      [] name = "Modern Language" -> <<"N","o"," ","p","r","a","c","t","i","c","e"," ","o","f"," ","a"," ","n","o","n","-","E","n",
            "g","l","i","s","h"," ","l","a","n","g","u","a","g","e">>
      [] name = "Creativity and Making" -> <<"N","o","t"," ","m","o","r","e"," ","t","h","a","n"," ","h","a","l","f"," ","c","r","e","a",
            "t","i","v","e"," ","w","o","r","k">>
      [] OTHER -> <<"N","o","t"," ","i","n"," ","a"," ","p","h","i","l","o","s","o","p","h","y"," ","d","e","p",
            "a","r","t","m","e","n","t",","," ","n","o","t"," ","m","o","r","e"," ","t","h","a","n"," ",
            "h","a","l","f">>

\* a NOT MET item whose missing elements start with such an element
ItemExplained(requirement) ==
    [ItemOf(requirement, "NOT MET") EXCEPT
        !.missingElements = Present(<<ElementAboutRule(requirement.name),
                                      requirement.requiredElements[2]>>)]

\* a NOT MET item under the other name of the Ethics requirement, without missingElements
EthicalReasoningItem ==
    [ItemOf(Ethics, "NOT MET") EXCEPT !.requirement = "Ethical Reasoning",
                                      !.missingElements = Absent]

\* an item that is null
NullItem ==
    [isObject |-> FALSE, requirement |-> "", status |-> "",
     matchingElements |-> Absent, matchingSLOs |-> Absent,
     missingElements |-> Absent, missingSLOs |-> Absent]

\* a requirement outside the batch that starts at i: the first one of another batch
ForeignRequirement(i) == IF i = 0 THEN genEdRequirements[batchSize + 1] ELSE genEdRequirements[1]

\* the regular answers to a batch: its requirements in order, each MET, NOT MET or left out
RECURSIVE RegularItems(_)
RegularItems(batch) ==
    IF Len(batch) = 0 THEN {<<>>}
    ELSE {first \o rest :
             first \in {<<>>, <<ItemOf(Head(batch), "MET")>>, <<ItemOf(Head(batch), "NOT MET")>>},
             rest \in RegularItems(Tail(batch))}

\* items a response may carry beyond them: the first requirement again, a requirement
\* of another batch, null
ExtraItems(i) ==
    {ItemOf(requirementsBatch(i)[1], "MET"), ItemOf(ForeignRequirement(i), "NOT MET"), NullItem}

BatchResponses(level, i) ==
    (IF level # "up" THEN {[kind |-> "throws", results |-> Absent]} ELSE {})
    \cup (IF level \in {"small", "full"}
          THEN {[kind |-> "unparsable", results |-> Absent],
                [kind |-> "json", results |-> Absent]}
          ELSE {})
    \cup (IF level = "small"
          THEN {[kind |-> "json",
                 results |-> Present([k \in DOMAIN requirementsBatch(i) |->
                                ItemOutOfRange(requirementsBatch(i)[k],
                                               IF k = 1 THEN "MET" ELSE "NOT MET")])],
                [kind |-> "json",
                 results |-> Present([k \in DOMAIN requirementsBatch(i) |->
                                         ItemExplained(requirementsBatch(i)[k])]
                                     \o <<EthicalReasoningItem>>)],
                [kind |-> "json",
                 results |-> Present([k \in DOMAIN requirementsBatch(i) |->
                                         ItemOf(requirementsBatch(i)[k],
                                                IF k = 1 THEN "MET" ELSE "NOT MET")]
                                     \o <<NullItem>>)]}
          ELSE {})
    \cup (IF level = "full"
          THEN {[kind |-> "json", results |-> Present(regular \o extra)] :
                   regular \in RegularItems(requirementsBatch(i)),
                   extra \in SeqsUpTo(ExtraItems(i), MaxExtraItems)}
          ELSE IF level = "down" THEN {}
          ELSE {[kind |-> "json",
                 results |-> Present([k \in DOMAIN requirementsBatch(i) |->
                                ItemOf(requirementsBatch(i)[k],
                                       IF k = 1 THEN "MET" ELSE "NOT MET")])]})

ExtractionResponses(level) ==
    (IF level # "up" THEN {[kind |-> "throws", content |-> Absent]} ELSE {})
    \cup (IF level # "down"
          THEN {[kind |-> "content", content |-> Present(<<"1","."," ","A","n","a","l","y","z","e"," ","e","t","h","i","c","a","l"," ","t","h","e","o",
            "r","i","e","s",".">>)]}
          ELSE {})
    \cup (IF level = "full"
          THEN {[kind |-> "content", content |-> Absent],
                [kind |-> "content", content |-> Present(<<" "," ","N","o","n","e","."," "," ">>)]}
          ELSE {})

FitOf(name, score, matching, missing) ==
    [name |-> name, matchScore |-> score, matchingSLOs |-> matching,
     missingSLOs |-> missing, hasSLOLists |-> TRUE]

FitA == FitOf("Ethics", 95, <<1, 2, 3>>, <<4>>)
FitB == FitOf("Quantitative Reasoning", 91, <<1, 2>>, <<3>>)
FitC == FitOf("Modern Language", 60, <<1>>, <<2, 3, 4>>)
FitD == FitOf("Creativity and Making", 15, <<>>, <<1, 2, 3, 4>>)
\* a best-fit entry without matchingSLOs and missingSLOs
FitWithoutLists == [FitOf("Synthetic Requirement", 90, <<>>, <<>>) EXCEPT !.hasSLOLists = FALSE]

\* a ranking response that names three best fits, one more than the prompt asks for
ThreeBestFits ==
    [kind |-> "json", bestFits |-> Present(<<FitA, FitB, FitC>>),
     potentialFits |-> Present(<<>>), poorFits |-> Present(<<FitD>>)]

RankResponses(level) ==
    (IF level # "up"
     THEN {[kind |-> "throws", bestFits |-> Absent, potentialFits |-> Absent,
            poorFits |-> Absent]}
     ELSE {})
    \cup (IF level # "down"
          THEN {[kind |-> "json", bestFits |-> Present(<<FitA>>),
                 potentialFits |-> Present(<<FitC>>), poorFits |-> Present(<<FitD>>)]}
          ELSE {})
    \cup (IF level \in {"small", "full"}
          THEN {[kind |-> "unparsable", bestFits |-> Absent, potentialFits |-> Absent,
                 poorFits |-> Absent]}
          ELSE {})
    \cup (IF level = "full"
          THEN {[kind |-> "json", bestFits |-> b, potentialFits |-> p, poorFits |-> q] :
                   b \in {Absent} \cup {Present(x) : x \in SeqsUpTo({FitA, FitB, FitWithoutLists}, MaxBestFits)},
                   p \in {Absent, Present(<<>>), Present(<<FitC>>), Present(<<FitC, FitD>>)},
                   q \in {Absent, Present(<<>>), Present(<<FitD>>)}}
               \cup {ThreeBestFits}
          ELSE {})

(***************************************************************************)
(* Requests                                                                *)
(***************************************************************************)

\* the largest number of files of a request to /api/analyze-multiple
MaxFiles == 2

\* the text of the k-th uploaded document
DocumentText(k) ==
    IF k % 2 = 1 THEN <<"M","A","T","H"," ","1","0","1",":"," ","C","a","l","c","u","l","u","s","\n">> \o TextOf({5, 6, 7, 8}, 0)
    ELSE TextOf({4}, 0)

\* what can go wrong with an uploaded file: the extraction library throws on the
\* content of an unreadable one, storage.createAnalysis throws on "storage"
FileFaults == {"none", "unreadable", "storage"}

\* the extensions the upload filter lets through (".doc" is handled as ".docx")
FileTypes == {".pdf", ".docx"}

\* the uploaded files told apart by extension and fault
FileKinds ==
    {kind \in [fileType : FileTypes, fault : FileFaults] :
        kind.fault = "storage" => kind.fileType = ".docx"}

\* the course fields of a form as the user may send them: none, both empty, both
\* filled in
CourseFields ==
    {[courseName |-> Absent, courseCode |-> Absent],
     [courseName |-> Present(<<>>), courseCode |-> Present(<<>>)],
     [courseName |-> Present(<<"M","y"," ","C","o","u","r","s","e">>), courseCode |-> Present(<<"M","Y"," ","2","0","0">>)]}

\* the forms of a request with n files: the fields of at most one file are sent
FormsOf(n) ==
    {perFile \in [1..n -> CourseFields] :
        Cardinality({k \in 1..n : perFile[k].courseName.present}) <= 1}

\* what can go wrong with the removal of an upload after its analysis was saved:
\* the first fs.unlinkSync on the file throws and a second one would succeed
\* ("unlink"), or every fs.unlinkSync on it throws ("undeletable")
CleanupFaults == {"unlink", "undeletable"}

\* .docx files that are sound, unreadable, or whose upload resists removal
CleanupKinds ==
    {[fileType |-> ".docx", fault |-> fault] :
        fault \in {"none", "unreadable"} \cup CleanupFaults}

UploadedFilesOf(n, fileKinds) ==
    {[k \in 1..n |-> [originalname |-> k, fileType |-> kinds[k].fileType,
                      text |-> DocumentText(k), fault |-> kinds[k].fault]] :
        kinds \in [1..n -> fileKinds]}

UploadedFiles(n) == UploadedFilesOf(n, FileKinds)

\* what extractTextFromPDF returns in place of the text when the extraction throws
PdfExtractionFailed == <<"P","D","F"," ","t","e","x","t"," ","e","x","t","r","a","c","t","i","o","n"," ","f","a","i",
            "l","e","d","."," ","P","l","e","a","s","e"," ","t","r","y"," ","a"," ","d","i","f","f","e",
            "r","e","n","t"," ","f","i","l","e"," ","f","o","r","m","a","t",".">>

\* extractTextFromPDF catches what pdfExtract.extract throws and returns a text
extractTextFromPDF(file) ==
    [threw |-> FALSE,
     text |-> IF file.fault = "unreadable" THEN PdfExtractionFailed ELSE file.text]

\* extractTextFromDOCX rethrows what mammoth.extractRawText throws
extractTextFromDOCX(file) ==
    IF file.fault = "unreadable" THEN [threw |-> TRUE, text |-> <<>>]
    ELSE [threw |-> FALSE, text |-> file.text]

\* extractTextFromDocument: the switch over the extension, the default case throws
extractTextFromDocument(file) ==
    CASE file.fileType = ".pdf" -> extractTextFromPDF(file)
      [] file.fileType \in {".doc", ".docx"} -> extractTextFromDOCX(file)
      [] OTHER -> [threw |-> TRUE, text |-> <<>>]

VARIABLES
    syllabusText,   \* the text under analysis
    detPc,          \* "call" before analyzeGenEdRequirements runs, "returned" after
    detResult,      \* what the call returned
    element,        \* a required element or an SLO put to the presence test
    elementFound,   \* "untested", or how the test on it ended: "present", "missing"
    apiKey,         \* config.openai.apiKey is set
    aiPc,           \* where analyzeWithOpenAI stands
    courseInfo,     \* its local courseInfo
    batchIndex,     \* its loop variable i
    approvedRequirements,
    rejectedRequirements,
    extractedSLOs,  \* the local of determineRequirementFits
    fitResults,
    aiResult,       \* what analyzeWithOpenAI returned
    service,        \* the completion service: "up" answers every call, "down" fails every call
    callLog,        \* the completion calls of the current analysis and how each ended
    batchLog,       \* the batch calls of the current analysis with their responses
    rankResponse,   \* the response to the ranking call
    rankPrompt,     \* the "CURRENT ANALYSIS" lines of the ranking prompt
    route,          \* the handler that serves the request
    routePc,        \* where the handler stands
    files,          \* req.file / req.files
    body,           \* req.body
    fileIndex,      \* the file being processed
    analysisResult,
    analysisMethod,
    storage,        \* the analyses storage.createAnalysis has saved
    tempFiles,      \* the uploaded files still on disk
    documents,      \* the files copied to uploads/documents
    results,
    errors,
    response        \* what the handler sent

detVars == <<syllabusText, detPc, detResult, detLog, element, elementFound>>
aiVars == <<apiKey, aiPc, courseInfo, batchIndex, approvedRequirements, rejectedRequirements,
            extractedSLOs, fitResults, aiResult, service, callLog, batchLog, rankResponse,
            rankPrompt>>
routeVars == <<route, routePc, files, body, fileIndex, analysisResult, analysisMethod,
               storage, tempFiles, documents, results, errors, response>>
vars == <<detVars, aiVars, routeVars>>

NoResult ==
    [courseName |-> <<>>, courseCode |-> <<>>, approvedRequirements |-> <<>>,
     rejectedRequirements |-> <<>>, locals |-> <<>>]

NoCourseInfo == [name |-> <<>>, code |-> <<>>]

NoAnalysis ==
    [courseName |-> <<>>, courseCode |-> <<>>, approvedRequirements |-> <<>>,
     rejectedRequirements |-> <<>>, bestFit |-> Absent, potentialFits |-> Absent,
     poorFits |-> Absent]

NoRankPrompt == [passed |-> <<>>, failed |-> <<>>]

NoResponse == [status |-> 0, analysis |-> <<>>, success |-> <<>>, errors |-> <<>>]

\* no analyzeGenEdRequirements call of its own is pending
DetIdle ==
    /\ detPc = "idle"
    /\ detResult = NoResult
    /\ detLog = <<>>
    /\ element = <<>>
    /\ elementFound = "untested"

\* analyzeWithOpenAI is not running
AiLocalsCleared ==
    /\ courseInfo = NoCourseInfo
    /\ batchIndex = 0
    /\ approvedRequirements = <<>>
    /\ rejectedRequirements = <<>>
    /\ extractedSLOs = <<>>
    /\ fitResults = NoFits
    /\ aiResult = NoAnalysis
    /\ callLog = <<>>
    /\ batchLog = <<>>
    /\ rankResponse = NoRankResponse
    /\ rankPrompt = NoRankPrompt

\* no request is being served
RouteIdle ==
    /\ route = "none"
    /\ routePc = "idle"
    /\ files = <<>>
    /\ body = [single |-> [courseName |-> Absent, courseCode |-> Absent], perFile |-> <<>>]
    /\ fileIndex = 0
    /\ analysisResult = NoAnalysis
    /\ analysisMethod = ""
    /\ storage = <<>>
    /\ tempFiles = {}
    /\ documents = {}
    /\ results = <<>>
    /\ errors = <<>>
    /\ response = NoResponse

\* the deterministic matcher called on any syllabus text
InitDet ==
    /\ syllabusText \in SyllabusTexts
    /\ detPc = "call"
    /\ detResult = NoResult
    /\ detLog = <<>>
    /\ element = <<>>
    /\ elementFound = "untested"
    /\ apiKey = FALSE
    /\ service = "up"
    /\ aiPc = "idle"
    /\ AiLocalsCleared
    /\ RouteIdle

CallAnalyzeGenEd ==
    /\ detPc = "call"
    /\ detPc' = "returned"
    /\ detResult' = analyzeGenEdRequirements(syllabusText)
    /\ detLog' = Append(detLog,
                        [text |-> syllabusText,
                         result |-> [courseName |-> detResult'.courseName,
                                     courseCode |-> detResult'.courseCode,
                                     approvedRequirements |-> detResult'.approvedRequirements,
                                     rejectedRequirements |-> detResult'.rejectedRequirements]])
    /\ UNCHANGED <<syllabusText, element, elementFound, aiVars, routeVars>>

NextDet == CallAnalyzeGenEd

SpecDet == InitDet /\ [][NextDet]_vars

\* the largest number of calls of analyzeGenEdRequirements made in a row
MaxRuns == 3

\* the texts of these calls: the empty text, a text with a course code, a text
\* without one, a text that meets Quantitative Reasoning in part
RepeatedTexts == {<<>>, DocumentText(1), DocumentText(2), TextOf({1}, 0)}

InitRepeat ==
    /\ syllabusText \in RepeatedTexts
    /\ detPc = "call"
    /\ detResult = NoResult
    /\ detLog = <<>>
    /\ element = <<>>
    /\ elementFound = "untested"
    /\ apiKey = FALSE
    /\ service = "up"
    /\ aiPc = "idle"
    /\ AiLocalsCleared
    /\ RouteIdle

\* the caller goes on to analyse another text, or the same text again
AnalyzeAnother ==
    /\ detPc = "returned"
    /\ Len(detLog) < MaxRuns
    /\ syllabusText' \in RepeatedTexts
    /\ detPc' = "call"
    /\ UNCHANGED <<detResult, detLog, element, elementFound, aiVars, routeVars>>

NextRepeat ==
    \/ CallAnalyzeGenEd
    \/ AnalyzeAnother

SpecRepeat == InitRepeat /\ [][NextRepeat]_vars

\* The presence test on its own.  The pieces a text is made of, in an order that
\* is not the order of the words of the elements below
TextPieces == <<
    <<"J","u","l","i","e","t"," ","I","n","d","i","a"," ","H","o","t","e","l">>, <<"g","o","l","f","i","n","g",","," ","f","o","x","t","r","o","t",","," ","e","c","h","o","e",
            "s">>, <<"d","e","l","t","a">>, <<"c","h","a","r","l","i","e">>,
    <<"B","R","A","V","O">>, <<"a","l","p","h","a">>, <<"u","s","e"," ","o","f"," ","A","I">>, <<"m","e","t","a","d","a","t","a">>, <<"a","n","a","l","y","s","i","s">>,
    <<"A","l","p","h","a"," ","b","r","a","v","o"," ","c","h","a","r","l","i","e">> >>

PresenceTexts ==
    {Concat([i \in DOMAIN TextPieces |->
                IF i \in chosen THEN TextPieces[i] \o <<";"," ">> ELSE <<>>]) :
        chosen \in SUBSET DOMAIN TextPieces}

\* elements put to the test: with two, three, four and ten words longer than 3
\* characters, with none, with shorter words among them, with a run of
\* whitespace, and the empty string
PresenceElements == {
    <<"D","a","t","a"," ","a","n","a","l","y","s","i","s">>,
    <<"U","s","e"," ","o","f"," ","A","I">>,
    <<"A","l","p","h","a"," ","b","r","a","v","o"," ","c","h","a","r","l","i","e">>,
    <<"A","l","p","h","a"," ","b","r","a","v","o"," ","c","h","a","r","l","i","e"," ","d","e","l",
            "t","a">>,
    <<"o","n","e"," ","t","w","o"," ","a","l","p","h","a"," ","s","i","x">>,
    <<"a","l","p","h","a"," ","b","r","a","v","o"," ","c","h","a","r","l","i","e"," ","d","e","l",
            "t","a"," ","e","c","h","o","e","s"," ","f","o","x","t","r","o","t"," ","g","o","l","f","i",
            "n","g"," ","h","o","t","e","l"," ","i","n","d","i","a"," ","j","u","l","i","e","t">>,
    <<"A","l","p","h","a"," "," ","\n"," ","b","r","a","v","o">>,
    <<"o","f"," ","t","h","e"," ","A","I",".">>,
    <<>> }

InitPresence ==
    /\ syllabusText \in PresenceTexts
    /\ element \in PresenceElements
    /\ elementFound = "untested"
    /\ detPc = "idle"
    /\ detResult = NoResult
    /\ detLog = <<>>
    /\ apiKey = FALSE
    /\ service = "up"
    /\ aiPc = "idle"
    /\ AiLocalsCleared
    /\ RouteIdle

\* the condition of lines 257-258 and 266-267 on the element
TestPresence ==
    /\ elementFound = "untested"
    /\ elementFound' = IF isPresent(toLowerCase(syllabusText), element)
                       THEN "present" ELSE "missing"
    /\ UNCHANGED <<syllabusText, detPc, detResult, detLog, element, aiVars, routeVars>>

NextPresence == TestPresence

SpecPresence == InitPresence /\ [][NextPresence]_vars

(***************************************************************************)
(* analyzeWithOpenAI, one action per await                                 *)
(***************************************************************************)

\* analyzeWithOpenAI called on a text, with or without a credential
InitAI ==
    /\ syllabusText = DocumentText(1)
    /\ DetIdle
    /\ apiKey \in BOOLEAN
    /\ service = "up"
    /\ aiPc = "start"
    /\ AiLocalsCleared
    /\ RouteIdle

\* the credential check; its throw is rethrown by the outer catch
CheckApiKey ==
    /\ aiPc = "start"
    /\ aiPc' = IF apiKey THEN "courseInfo" ELSE "thrown"
    /\ UNCHANGED <<detVars, apiKey, service, courseInfo, batchIndex, approvedRequirements,
                   rejectedRequirements, extractedSLOs, fitResults, aiResult, callLog,
                   batchLog, rankResponse, rankPrompt, routeVars>>

Logged(call, outcome) == Append(callLog, [call |-> call, outcome |-> outcome])

IdentifyCourse(level) ==
    /\ aiPc = "courseInfo"
    /\ \E r \in CourseInfoResponses(level) :
          /\ courseInfo' = extractCourseInfoWithAI(r)
          /\ callLog' = Logged("courseInfo", r.kind)
    /\ aiPc' = "batch"
    /\ UNCHANGED <<detVars, apiKey, service, batchIndex, approvedRequirements, rejectedRequirements,
                   extractedSLOs, fitResults, aiResult, batchLog, rankResponse, rankPrompt, routeVars>>

\* faulty variant that C21 tells apart: a batch whose call failed is requested again
ProcessBatchRetrying(level) ==
    /\ aiPc = "batch"
    /\ batchIndex < Len(genEdRequirements)
    /\ \E r \in BatchResponses(level, batchIndex) :
          LET outcome == processRequirementsBatch(r)
              lists == pushBatch([approved |-> approvedRequirements,
                                  rejected |-> rejectedRequirements],
                                 batchIndex, outcome)
              next == IF outcome.threw THEN batchIndex ELSE batchIndex + batchSize
          IN  /\ approvedRequirements' = lists.approved
              /\ rejectedRequirements' = lists.rejected
              /\ callLog' = Logged("batch", r.kind)
              /\ batchLog' = Append(batchLog, [start |-> batchIndex, response |-> r])
              /\ batchIndex' = next
              /\ aiPc' = IF next < Len(genEdRequirements) THEN "batch" ELSE "extract"
    /\ UNCHANGED <<detVars, apiKey, service, courseInfo, extractedSLOs, fitResults, aiResult,
                   rankResponse, rankPrompt, routeVars>>

\* one turn of the batch loop
ProcessBatch(level) ==
    /\ aiPc = "batch"
    /\ batchIndex < Len(genEdRequirements)
    /\ \E r \in BatchResponses(level, batchIndex) :
          LET lists == pushBatch([approved |-> approvedRequirements,
                                  rejected |-> rejectedRequirements],
                                 batchIndex, processRequirementsBatch(r))
          IN  /\ approvedRequirements' = lists.approved
              /\ rejectedRequirements' = lists.rejected
              /\ callLog' = Logged("batch", r.kind)
              /\ batchLog' = Append(batchLog, [start |-> batchIndex, response |-> r])
    /\ batchIndex' = batchIndex + batchSize
    /\ aiPc' = IF batchIndex + batchSize < Len(genEdRequirements) THEN "batch" ELSE "extract"
    /\ UNCHANGED <<detVars, apiKey, service, courseInfo, extractedSLOs, fitResults, aiResult,
                   rankResponse, rankPrompt, routeVars>>

\* determineRequirementFits up to the ranking call
ExtractOutcomes(level) ==
    /\ aiPc = "extract"
    /\ \E r \in ExtractionResponses(level) :
          /\ extractedSLOs' = extractSyllabusLearningOutcomes(r)
          /\ callLog' = Logged("extract", r.kind)
    /\ aiPc' = "rank"
    /\ UNCHANGED <<detVars, apiKey, service, courseInfo, batchIndex, approvedRequirements,
                   rejectedRequirements, fitResults, aiResult, batchLog, rankResponse, rankPrompt,
                   routeVars>>

\* names.join(', ') || "None": the names in order, "None" when the joined string is empty
joinedOrNone(list) ==
    IF Len(list) = 0 \/ (Len(list) = 1 /\ list[1].name = "") THEN <<"None">>
    ELSE [k \in DOMAIN list |-> list[k].name]

\* faulty variant that C22 tells apart: the prompt names what the last batch added only
currentAnalysisOfLastBatch(approved, rejected) ==
    LET last == processRequirementsBatch(batchLog[Len(batchLog)].response)
    IN  [passed |-> joinedOrNone(last.approved), failed |-> joinedOrNone(last.rejected)]

\* the requirements the ranking prompt says the syllabus has passed and failed
currentAnalysis(approved, rejected) ==
    [passed |-> joinedOrNone(approved), failed |-> joinedOrNone(rejected)]

\* faulty variant that C14 tells apart: a failed ranking makes analyzeWithOpenAI throw
RankAndReturnRethrowing(level) ==
    /\ aiPc = "rank"
    /\ \E r \in RankResponses(level) :
          LET fits == rankFits(extractedSLOs, r)
          IN  /\ fitResults' = fits
              /\ rankResponse' = r
              /\ rankPrompt' = currentAnalysis(approvedRequirements, rejectedRequirements)
              /\ callLog' = Logged("rank", r.kind)
              /\ IF r.kind = "json"
                 THEN /\ aiResult' = [courseName |-> courseInfo.name,
                                      courseCode |-> courseInfo.code,
                                      approvedRequirements |-> approvedRequirements,
                                      rejectedRequirements |-> rejectedRequirements,
                                      bestFit |-> fits.bestFit,
                                      potentialFits |-> Present(fits.potentialFits),
                                      poorFits |-> Present(fits.poorFits)]
                      /\ aiPc' = "returned"
                 ELSE /\ aiResult' = aiResult
                      /\ aiPc' = "thrown"
    /\ UNCHANGED <<detVars, apiKey, service, courseInfo, batchIndex, approvedRequirements,
                   rejectedRequirements, extractedSLOs, batchLog, routeVars>>

\* the ranking call, the rest of determineRequirementFits and the return of
\* analyzeWithOpenAI
RankAndReturn(level) ==
    /\ aiPc = "rank"
    /\ \E r \in RankResponses(level) :
          LET fits == rankFits(extractedSLOs, r)
          IN  /\ fitResults' = fits
              /\ rankResponse' = r
              /\ rankPrompt' = currentAnalysis(approvedRequirements, rejectedRequirements)
              /\ callLog' = Logged("rank", r.kind)
              /\ aiResult' = [courseName |-> courseInfo.name,
                              courseCode |-> courseInfo.code,
                              approvedRequirements |-> approvedRequirements,
                              rejectedRequirements |-> rejectedRequirements,
                              bestFit |-> fits.bestFit,
                              potentialFits |-> Present(fits.potentialFits),
                              poorFits |-> Present(fits.poorFits)]
    /\ aiPc' = "returned"
    /\ UNCHANGED <<detVars, apiKey, service, courseInfo, batchIndex, approvedRequirements,
                   rejectedRequirements, extractedSLOs, batchLog, routeVars>>

\* the semantic matcher under every answer to its batches
NextAI ==
    \/ CheckApiKey
    \/ IdentifyCourse("small")
    \/ ProcessBatch("full")
    \/ ExtractOutcomes("small")
    \/ RankAndReturn("small")

SpecAI == InitAI /\ [][NextAI]_vars

\* the semantic matcher under every answer to course identification, outcome
\* extraction and ranking
NextFit ==
    \/ CheckApiKey
    \/ IdentifyCourse("full")
    \/ ProcessBatch("small")
    \/ ExtractOutcomes("full")
    \/ RankAndReturn("full")

SpecFit == InitAI /\ [][NextFit]_vars

(***************************************************************************)
(* The routes POST /api/analyze and POST /api/analyze-multiple              *)
(***************************************************************************)

UnnamedCoursePlaceholder == <<"U","n","n","a","m","e","d"," ","C","o","u","r","s","e">>

\* /api/analyze: 'courseName' in req.body ? req.body.courseName
\*                                        : (analysisResult.courseName || placeholder)
courseFieldSingle(field, extracted, placeholder) ==
    IF field.present THEN field.value
    ELSE IF Len(extracted) > 0 THEN extracted
    ELSE placeholder

\* /api/analyze-multiple: (req.body[...] || "") || analysisResult.courseName || placeholder
courseFieldMultiple(field, extracted, placeholder) ==
    LET fileSpecific == OrElse(field, <<>>)
    IN  IF Len(fileSpecific) > 0 THEN fileSpecific
        ELSE IF Len(extracted) > 0 THEN extracted
        ELSE placeholder

\* the form fields about the file being processed
UserFields(k) == IF route = "single" THEN body.single ELSE body.perFile[k]

\* the fields the handler reads of what analyzeGenEdRequirements returned: it
\* has no bestFit, potentialFits or poorFits
fieldsRead(result) ==
    [courseName |-> result.courseName, courseCode |-> result.courseCode,
     approvedRequirements |-> result.approvedRequirements,
     rejectedRequirements |-> result.rejectedRequirements,
     bestFit |-> Absent, potentialFits |-> Absent, poorFits |-> Absent]

\* faulty variant that C5 tells apart: the fallback keeps nothing of the deterministic matcher
emptyAnalysis(text) == NoAnalysis

\* the catch block around analyzeWithOpenAI
fallbackAnalysis(text) == fieldsRead(analyzeGenEdRequirements(text))

\* a request with its uploaded files on disk
Request(fileKinds) ==
    /\ syllabusText = <<>>
    /\ DetIdle
    /\ apiKey \in BOOLEAN
    /\ service \in (IF apiKey THEN {"up", "down"} ELSE {"up"})
    /\ aiPc = "idle"
    /\ AiLocalsCleared
    /\ route \in {"single", "multi"}
    /\ routePc = "received"
    /\ \E n \in 0..(IF route = "single" THEN 1 ELSE MaxFiles) :
          /\ files \in UploadedFilesOf(n, fileKinds)
          /\ tempFiles = 1..n
          /\ IF route = "single"
             THEN body \in [single : CourseFields, perFile : {<<>>}]
             ELSE body \in [single : {[courseName |-> Absent, courseCode |-> Absent]},
                            perFile : FormsOf(n)]
    /\ fileIndex = 0
    /\ analysisResult = NoAnalysis
    /\ analysisMethod = ""
    /\ storage = <<>>
    /\ documents = {}
    /\ results = <<>>
    /\ errors = <<>>
    /\ response = NoResponse

Init == Request(FileKinds)

\* a new activation of analyzeWithOpenAI starts with fresh locals
ClearAiLocals ==
    /\ courseInfo' = NoCourseInfo
    /\ batchIndex' = 0
    /\ approvedRequirements' = <<>>
    /\ rejectedRequirements' = <<>>
    /\ extractedSLOs' = <<>>
    /\ fitResults' = NoFits
    /\ aiResult' = NoAnalysis
    /\ callLog' = <<>>
    /\ batchLog' = <<>>
    /\ rankResponse' = NoRankResponse
    /\ rankPrompt' = NoRankPrompt

ErrorResponse(status) == [NoResponse EXCEPT !.status = status]

\* both handlers answer 400 to a request without a file
RejectWithoutFile ==
    /\ routePc = "received"
    /\ Len(files) = 0
    /\ response' = ErrorResponse(400)
    /\ routePc' = "responded"
    /\ UNCHANGED <<detVars, aiVars, route, files, body, fileIndex, analysisResult,
                   analysisMethod, storage, tempFiles, documents, results, errors>>

\* faulty variant that C11 tells apart: a failing file ends the request with 500 in
\* both routes
FileFailedAbortsRequest(k) ==
    /\ response' = ErrorResponse(500)
    /\ routePc' = "responded"
    /\ UNCHANGED <<tempFiles, errors>>

\* what the handler does when processing file k throws: /api/analyze answers 500,
\* /api/analyze-multiple records the error, removes the upload and goes on
FileFailed(k) ==
    IF route = "single"
    THEN /\ response' = ErrorResponse(500)
         /\ routePc' = "responded"
         /\ UNCHANGED <<tempFiles, errors>>
    ELSE /\ errors' = Append(errors, [fileName |-> files[k].originalname])
         /\ tempFiles' = tempFiles \ {k}
         /\ routePc' = "nextFile"
         /\ UNCHANGED response

\* what the handler does when the fs.unlinkSync that follows storage.createAnalysis
\* throws on file k: /api/analyze answers 500; /api/analyze-multiple has pushed the
\* entry of results already, pushes an entry of errors, and tries the removal
\* again, whose throw leaves the loop and ends the request with 500
UnlinkFailed(k, entry) ==
    IF route = "single"
    THEN /\ response' = ErrorResponse(500)
         /\ routePc' = "responded"
         /\ UNCHANGED <<tempFiles, results, errors>>
    ELSE /\ results' = Append(results, entry)
         /\ errors' = Append(errors, [fileName |-> files[k].originalname])
         /\ IF files[k].fault = "undeletable"
            THEN /\ response' = ErrorResponse(500)
                 /\ routePc' = "responded"
                 /\ UNCHANGED tempFiles
            ELSE /\ tempFiles' = tempFiles \ {k}
                 /\ routePc' = "nextFile"
                 /\ UNCHANGED response

\* the handler takes the next file, extracts its text and calls analyzeWithOpenAI
StartFile ==
    /\ routePc \in {"received", "nextFile"}
    /\ fileIndex < Len(files)
    /\ fileIndex' = fileIndex + 1
    /\ analysisMethod' = "keyword"
    /\ IF extractTextFromDocument(files[fileIndex + 1]).threw
       THEN /\ FileFailed(fileIndex + 1)
            /\ UNCHANGED <<syllabusText, aiPc, courseInfo, batchIndex, approvedRequirements,
                           rejectedRequirements, extractedSLOs, fitResults, aiResult,
                           callLog, batchLog, rankResponse, rankPrompt>>
       ELSE /\ syllabusText' = extractTextFromDocument(files[fileIndex + 1]).text
            /\ aiPc' = "start"
            /\ ClearAiLocals
            /\ routePc' = "analyzing"
            /\ UNCHANGED <<tempFiles, errors, response>>
    /\ UNCHANGED <<detPc, detResult, detLog, element, elementFound, apiKey, service, route,
                   files, body, analysisResult,
                   storage, documents, results>>

\* analyzeWithOpenAI returned
AnalysisReturned ==
    /\ routePc = "analyzing"
    /\ aiPc = "returned"
    /\ analysisResult' = aiResult
    /\ analysisMethod' = "ai"
    /\ routePc' = "store"
    /\ UNCHANGED <<detVars, aiVars, route, files, body, fileIndex, storage, tempFiles,
                   documents, results, errors, response>>

\* analyzeWithOpenAI threw: the catch block calls analyzeGenEdRequirements
FallBack ==
    /\ routePc = "analyzing"
    /\ aiPc = "thrown"
    /\ analysisResult' = fallbackAnalysis(syllabusText)
    /\ routePc' = "store"
    /\ UNCHANGED <<detVars, aiVars, route, files, body, fileIndex, analysisMethod, storage,
                   tempFiles, documents, results, errors, response>>

\* the rest of the work on a file: course name and code, the copy of the document,
\* storage.createAnalysis, the removal of the upload and the answer or the entry
\* of results
StoreAnalysis ==
    /\ routePc = "store"
    /\ LET k == fileIndex
           fields == UserFields(k)
           courseName ==
               IF route = "single"
               THEN courseFieldSingle(fields.courseName, analysisResult.courseName,
                                      UnnamedCoursePlaceholder)
               ELSE courseFieldMultiple(fields.courseName, analysisResult.courseName,
                                        UnnamedCoursePlaceholder)
           courseCode ==
               IF route = "single"
               THEN courseFieldSingle(fields.courseCode, analysisResult.courseCode, <<>>)
               ELSE courseFieldMultiple(fields.courseCode, analysisResult.courseCode, <<>>)
           entry == [fileName |-> files[k].originalname,
                     courseName |-> courseName,
                     courseCode |-> courseCode,
                     approvedRequirements |-> analysisResult.approvedRequirements,
                     rejectedRequirements |-> analysisResult.rejectedRequirements,
                     analysisMethod |-> analysisMethod,
                     bestFit |-> analysisResult.bestFit,
                     potentialFits |-> analysisResult.potentialFits,
                     poorFits |-> analysisResult.poorFits]
       IN  /\ documents' = documents \cup {k}
           /\ IF files[k].fault = "storage"
              THEN /\ FileFailed(k)
                   /\ UNCHANGED <<storage, results>>
              ELSE /\ storage' = Append(storage, [entry EXCEPT !.analysisMethod = ""])
                   /\ IF files[k].fault \in CleanupFaults
                      THEN UnlinkFailed(k, entry)
                      ELSE /\ tempFiles' = tempFiles \ {k}
                           /\ IF route = "single"
                              THEN /\ response' = [NoResponse EXCEPT !.status = 200,
                                                                     !.analysis = <<entry>>]
                                   /\ routePc' = "responded"
                                   /\ UNCHANGED results
                              ELSE /\ results' = Append(results, entry)
                                   /\ routePc' = "nextFile"
                                   /\ UNCHANGED response
                           /\ UNCHANGED errors
    /\ UNCHANGED <<detVars, aiVars, route, files, body, fileIndex, analysisResult,
                   analysisMethod>>

\* /api/analyze-multiple answers once the loop over the files is over
RespondMultiple ==
    /\ route = "multi"
    /\ routePc = "nextFile"
    /\ fileIndex = Len(files)
    /\ response' = [NoResponse EXCEPT !.status = 200, !.success = results, !.errors = errors]
    /\ routePc' = "responded"
    /\ UNCHANGED <<detVars, aiVars, route, files, body, fileIndex, analysisResult,
                   analysisMethod, storage, tempFiles, documents, results, errors>>

Next ==
    \/ RejectWithoutFile
    \/ StartFile
    \/ CheckApiKey
    \/ IdentifyCourse(service)
    \/ ProcessBatch(service)
    \/ ExtractOutcomes(service)
    \/ RankAndReturn(service)
    \/ AnalysisReturned
    \/ FallBack
    \/ StoreAnalysis
    \/ RespondMultiple

Spec == Init /\ [][Next]_vars

\* POST /api/analyze with a completion service that answers the course
\* identification and the outcome extraction, and answers the batches and the
\* ranking in every way
InitRank ==
    /\ Init
    /\ route = "single"
    /\ service = "up"

NextRank ==
    \/ RejectWithoutFile
    \/ StartFile
    \/ CheckApiKey
    \/ IdentifyCourse("up")
    \/ ProcessBatch("small")
    \/ ExtractOutcomes("up")
    \/ RankAndReturn("full")
    \/ AnalysisReturned
    \/ FallBack
    \/ StoreAnalysis

SpecRank == InitRank /\ [][NextRank]_vars

\* POST /api/analyze-multiple with uploads whose removal may fail
InitCleanup ==
    /\ Request(CleanupKinds)
    /\ route = "multi"

SpecCleanup == InitCleanup /\ [][Next]_vars

(***************************************************************************)
(* Properties of the deterministic matcher (C18 under SpecRepeat, C24      *)
(* under SpecPresence, the others under SpecDet)                           *)
(***************************************************************************)

\* old is an initial part of new
IsPrefix(old, new) == Len(old) <= Len(new) /\ SubSeq(new, 1, Len(old)) = old

Names(list) == [i \in DOMAIN list |-> list[i].name]

\* how many entries of a list carry a name
Occurrences(list, name) == Cardinality({i \in DOMAIN list : list[i].name = name})

IsApproved(result, name) == Occurrences(result.approvedRequirements, name) > 0
IsRejected(result, name) == Occurrences(result.rejectedRequirements, name) > 0

\* the least k with k >= 0.6 * n
SixtyPercentOf(n) == CHOOSE k \in 0..n : 10 * k >= 6 * n /\ \A j \in 0..(k - 1) : 10 * j < 6 * n

\* the loop's locals for the requirement at position i of the catalog
LocalsOf(i) == detResult.locals[i]

ThresholdsMet(i) ==
    /\ Len(LocalsOf(i).matchingReqs) >= SixtyPercentOf(Len(genEdRequirements[i].requiredElements))
    /\ Len(LocalsOf(i).matchingSLOs) >= SixtyPercentOf(Len(genEdRequirements[i].slos))

CreativityIndex == CHOOSE i \in DOMAIN genEdRequirements : genEdRequirements[i].name = "Creativity and Making"
SyntheticIndex == CHOOSE i \in DOMAIN genEdRequirements : genEdRequirements[i].name = "Synthetic Requirement"

\* C1: after analyzeGenEdRequirements returns, every requirement name of the catalog
\* occurs exactly once in approvedRequirements and rejectedRequirements taken together
C1_ExactlyOneList ==
    detPc = "returned" =>
        \A name \in CatalogNames :
            Occurrences(detResult.approvedRequirements, name)
                + Occurrences(detResult.rejectedRequirements, name) = 1

\* C1 witness: a result with approved and rejected entries where the Creativity
\* override fired although both thresholds were met
C1_Witness ==
    /\ detPc = "returned"
    /\ Len(detResult.approvedRequirements) > 0
    /\ ThresholdsMet(CreativityIndex)
    /\ LocalsOf(CreativityIndex).creativeContentScore < 10
    /\ IsRejected(detResult, "Creativity and Making")

\* C3: a requirement that the Creativity override does not force-reject is approved
\* exactly when both 60% thresholds are met; with 5 elements and 5 SLOs, 3 of each
\* approve and 2 of each reject
C3_ApprovedIffBothThresholds ==
    detPc = "returned" =>
        /\ \A i \in DOMAIN genEdRequirements :
              LET name == genEdRequirements[i].name
                  forced == name = "Creativity and Making"
                            /\ LocalsOf(i).creativeContentScore < 10
              IN  ~forced => /\ IsApproved(detResult, name) <=> ThresholdsMet(i)
                             /\ IsRejected(detResult, name) <=> ~ThresholdsMet(i)
        /\ LET syn == LocalsOf(SyntheticIndex)
           IN  /\ Len(genEdRequirements[SyntheticIndex].requiredElements) = 5
               /\ Len(genEdRequirements[SyntheticIndex].slos) = 5
               /\ (Len(syn.matchingReqs) = 3 /\ Len(syn.matchingSLOs) = 3)
                      => IsApproved(detResult, "Synthetic Requirement")
               /\ (Len(syn.matchingReqs) = 2 /\ Len(syn.matchingSLOs) = 2)
                      => IsRejected(detResult, "Synthetic Requirement")

\* C3 witness: the synthetic requirement approved with exactly 3 of 5 elements and
\* 3 of 5 SLOs, and Quantitative Reasoning rejected
C3_Witness ==
    /\ detPc = "returned"
    /\ Len(LocalsOf(SyntheticIndex).matchingReqs) = 3
    /\ Len(LocalsOf(SyntheticIndex).matchingSLOs) = 3
    /\ IsApproved(detResult, "Synthetic Requirement")
    /\ IsRejected(detResult, "Quantitative Reasoning")

\* the rejected entry of a name carries the explanation of the Creativity override
HasCreativityExplanation(result, name) ==
    \E i \in DOMAIN result.rejectedRequirements :
        /\ result.rejectedRequirements[i].name = name
        /\ \E k \in DOMAIN result.rejectedRequirements[i].missingRequirements :
              result.rejectedRequirements[i].missingRequirements[k] = CreativityMissingText

\* C4: with 9 or fewer occurrences of the creative terms "Creativity and Making" is
\* rejected with the explanation, whatever the thresholds; with 10 or more the
\* thresholds alone decide; no other requirement is touched by the override.  The
\* two texts named are fragments 2, 3 and 4 with 3 and with 4 mentions of "film":
\* 9 and 10 occurrences, both thresholds met.
C4_CreativityOverride ==
    detPc = "returned" =>
        LET score == LocalsOf(CreativityIndex).creativeContentScore
        IN  /\ score <= 9 => /\ IsRejected(detResult, "Creativity and Making")
                             /\ ~IsApproved(detResult, "Creativity and Making")
                             /\ HasCreativityExplanation(detResult, "Creativity and Making")
            /\ score >= 10 => /\ IsApproved(detResult, "Creativity and Making")
                                     <=> ThresholdsMet(CreativityIndex)
                              /\ ~HasCreativityExplanation(detResult, "Creativity and Making")
            /\ \A i \in DOMAIN genEdRequirements \ {CreativityIndex} :
                  /\ IsApproved(detResult, genEdRequirements[i].name) <=> ThresholdsMet(i)
                  /\ ~HasCreativityExplanation(detResult, genEdRequirements[i].name)
            /\ syllabusText = TextOf({2, 3, 4}, 3)
                  => score = 9 /\ IsRejected(detResult, "Creativity and Making")
            /\ syllabusText = TextOf({2, 3, 4}, 4)
                  => score = 10 /\ IsApproved(detResult, "Creativity and Making")

\* C4 witness: 9 occurrences, both thresholds met, rejected with the explanation
C4_Witness ==
    /\ detPc = "returned"
    /\ syllabusText = TextOf({2, 3, 4}, 3)
    /\ ThresholdsMet(CreativityIndex)
    /\ LocalsOf(CreativityIndex).creativeContentScore = 9
    /\ HasCreativityExplanation(detResult, "Creativity and Making")


\* C17: the deterministic matcher returns a result for every text, and on the
\* empty text nothing matches: every catalog requirement is in
\* rejectedRequirements, approvedRequirements is empty, the course code is empty
\* and the course name is "Unnamed Course".
C17_EmptyTextMatchesNothing ==
    detPc = "returned" =>
        /\ Len(detResult.approvedRequirements) + Len(detResult.rejectedRequirements)
              = Len(genEdRequirements)
        /\ Len(detResult.courseName) > 0
        /\ syllabusText = <<>> =>
              /\ detResult.approvedRequirements = <<>>
              /\ Names(detResult.rejectedRequirements) = Names(genEdRequirements)
              /\ detResult.courseCode = <<>>
              /\ detResult.courseName = UnnamedCourse

\* the required elements of requirement i that the matcher did not find, in order
ElementsNotFound(i) ==
    LET NotFound(e) == \A k \in DOMAIN LocalsOf(i).matchingReqs : LocalsOf(i).matchingReqs[k] # e
    IN  SelectSeq(genEdRequirements[i].requiredElements, NotFound)

\* the rejected entry of a name
RejectedEntry(result, name) ==
    result.rejectedRequirements[
        CHOOSE k \in DOMAIN result.rejectedRequirements :
            result.rejectedRequirements[k].name = name]

\* C19: when the Creativity override rejects "Creativity and Making", the
\* explanatory string is appended to the missing required elements:
\* missingRequirements is every required element that was not found, followed by
\* the explanatory string.
C19_OverrideAppendsExplanation ==
    /\ detPc = "returned"
    /\ LocalsOf(CreativityIndex).creativeContentScore < CreativeScoreThreshold
    => RejectedEntry(detResult, "Creativity and Making").missingRequirements
          = ElementsNotFound(CreativityIndex) \o <<CreativityMissingText>>

C17_Witness ==
    /\ detPc = "returned"
    /\ syllabusText = <<>>
    /\ Len(detResult.rejectedRequirements) = Len(genEdRequirements)
    /\ detResult.courseName = UnnamedCourse

Ascending(seq) == \A j, k \in DOMAIN seq : j < k => seq[j] < seq[k]

\* the approved entry of a name
ApprovedEntry(result, name) ==
    result.approvedRequirements[
        CHOOSE k \in DOMAIN result.approvedRequirements :
            result.approvedRequirements[k].name = name]

\* which strings of a list pass the presence test on a lower-cased text
PresenceOf(text, strings) ==
    [k \in DOMAIN strings |-> isPresent(text, strings[k])] \o <<>>

\* the strings of a list, in order, whose flag has a value
StringsFlagged(strings, flags, value) ==
    LET Flagged(k) == flags[k] = value
        positions == SelectSeq([k \in DOMAIN strings |-> k], Flagged)
    IN  [j \in DOMAIN positions |-> strings[positions[j]]]

\* C25: for every requirement the matching and the missing SLO numbers are
\* disjoint, each in ascending order, and together the numbers 1..len(slos), a
\* number being matching iff its SLO passes the presence test; an approved
\* entry's matchingRequirements is the sub-sequence of the required elements that
\* pass the test; a rejected entry's missingRequirements, unless the Creativity
\* override produced it, is the required elements that fail it, in catalog order.
C25_EntryShape ==
    detPc = "returned" =>
        \A i \in DOMAIN genEdRequirements :
            LET requirement == genEdRequirements[i]
                matching == LocalsOf(i).matchingSLOs
                missing == LocalsOf(i).missingSLOs
                sloPresent == PresenceOf(toLowerCase(syllabusText), requirement.slos)
                elementPresent ==
                    PresenceOf(toLowerCase(syllabusText), requirement.requiredElements)
            IN  /\ Range(matching) \cap Range(missing) = {}
                /\ Range(matching) \cup Range(missing) = 1..Len(requirement.slos)
                /\ Ascending(matching) /\ Ascending(missing)
                /\ \A j \in 1..Len(requirement.slos) :
                      j \in Range(matching) <=> sloPresent[j]
                /\ IsApproved(detResult, requirement.name) =>
                      /\ ApprovedEntry(detResult, requirement.name).matchingRequirements
                            = StringsFlagged(requirement.requiredElements, elementPresent, TRUE)
                      /\ ApprovedEntry(detResult, requirement.name).matchingSLOs = matching
                /\ IsRejected(detResult, requirement.name) =>
                      /\ RejectedEntry(detResult, requirement.name).missingSLOs = missing
                      /\ ~creativityOverride(requirement, LocalsOf(i).creativeContentScore) =>
                            RejectedEntry(detResult, requirement.name).missingRequirements
                                = StringsFlagged(requirement.requiredElements,
                                                 elementPresent, FALSE)

\* Quantitative Reasoning is approved with three of its four elements and two of
\* its three SLOs; the synthetic requirement is rejected with two elements found,
\* the other three missing, and none of its SLOs
C25_Witness ==
    /\ detPc = "returned"
    /\ IsApproved(detResult, "Quantitative Reasoning")
    /\ Len(ApprovedEntry(detResult, "Quantitative Reasoning").matchingRequirements) = 3
    /\ ApprovedEntry(detResult, "Quantitative Reasoning").matchingSLOs = <<1, 2>>
    /\ IsRejected(detResult, "Synthetic Requirement")
    /\ RejectedEntry(detResult, "Synthetic Requirement").missingRequirements
          = SubSeq(SyntheticRequirement.requiredElements, 3, 5)
    /\ RejectedEntry(detResult, "Synthetic Requirement").missingSLOs = <<1, 2, 3, 4, 5>>

\* s occurs in text as a substring
OccursIn(text, s) ==
    \E i \in 1..(Len(text) - Len(s) + 1) : SubSeq(text, i, i + Len(s) - 1) = s

\* the words of s, each by its first and last position: the maximal runs of
\* characters that are not whitespace
WordsOf(s) ==
    {w \in (1..Len(s)) \X (1..Len(s)) :
        /\ w[1] <= w[2]
        /\ \A i \in w[1]..w[2] : ~IsSpace(s[i])
        /\ w[1] = 1 \/ IsSpace(s[w[1] - 1])
        /\ w[2] = Len(s) \/ IsSpace(s[w[2] + 1])}

LongWordsOf(s) == {w \in WordsOf(s) : w[2] - w[1] + 1 > 3}

LongWordsFound(text, s) ==
    {w \in LongWordsOf(s) : OccursIn(text, SubSeq(s, w[1], w[2]))}

\* C24: an element or SLO counts as present iff its lower-cased text is a
\* substring of the lower-cased syllabus text, or it has at least one word longer
\* than 3 characters and at least 70% of its words longer than 3 characters occur
\* in the lower-cased syllabus text as substrings, in any order; an element
\* without such a word is present only as a literal substring.
C24_PresenceTest ==
    elementFound # "untested" =>
        LET text == toLowerCase(syllabusText)
            lower == toLowerCase(element)
            long == LongWordsOf(lower)
            found == LongWordsFound(text, lower)
        IN  /\ elementFound = "present" <=>
                  \/ OccursIn(text, lower)
                  \/ /\ Cardinality(long) >= 1
                     /\ 10 * Cardinality(found) >= 7 * Cardinality(long)
            /\ long = {} => (elementFound = "present" <=> OccursIn(text, lower))

\* seven of the ten long words of an element occur in the text, out of order and
\* not as the element itself: the element is present
C24_Witness ==
    /\ elementFound = "present"
    /\ Cardinality(LongWordsOf(toLowerCase(element))) = 10
    /\ Cardinality(LongWordsFound(toLowerCase(syllabusText), toLowerCase(element))) = 7
    /\ ~OccursIn(toLowerCase(syllabusText), toLowerCase(element))

(***************************************************************************)
(* Properties of the semantic batch matcher (checked under SpecAI)         *)
(***************************************************************************)

\* C2: in an analysis completed by analyzeWithOpenAI, whatever the batches answered,
\* no requirement name is in both approvedRequirements and rejectedRequirements.
C2_NoNameInBothLists ==
    aiPc = "returned" =>
        \A k \in DOMAIN aiResult.approvedRequirements :
            ~IsRejected(aiResult, aiResult.approvedRequirements[k].name)

\* the batch call threw or returned unparsable output
BatchFailed(entry) == entry.response.kind \in {"throws", "unparsable"}

\* what the batches answered so far contribute, failed batches nothing
ContributedApproved ==
    Concat([k \in DOMAIN batchLog |->
               IF BatchFailed(batchLog[k]) THEN <<>>
               ELSE processRequirementsBatch(batchLog[k].response).approved])

ContributedRejected ==
    Concat([k \in DOMAIN batchLog |->
               IF BatchFailed(batchLog[k]) THEN <<>>
               ELSE processRequirementsBatch(batchLog[k].response).rejected])

BatchNames(start) == Range(Names(requirementsBatch(start)))

\* every answered item is about a requirement of the batch it answers
OwnNamesOnly ==
    \A k \in DOMAIN batchLog :
        LET r == batchLog[k].response
        IN  r.kind = "json" /\ r.results.present =>
                \A j \in DOMAIN r.results.value :
                    r.results.value[j].isObject =>
                        r.results.value[j].requirement \in BatchNames(batchLog[k].start)

\* C7: a batch whose completion call throws or returns unparsable output is
\* skipped: it adds nothing to approvedRequirements or rejectedRequirements (its
\* requirements are not defaulted to rejected), what the other batches added stays
\* as it was, every batch of the catalog is still processed, and analyzeWithOpenAI
\* does not throw.
C7_FailedBatchSkipped ==
    /\ aiPc \in {"batch", "extract", "rank", "returned"} =>
          /\ approvedRequirements = ContributedApproved
          /\ rejectedRequirements = ContributedRejected
          /\ OwnNamesOnly =>
                \A k \in DOMAIN batchLog :
                    BatchFailed(batchLog[k]) =>
                        \A name \in BatchNames(batchLog[k].start) :
                            /\ Occurrences(approvedRequirements, name) = 0
                            /\ Occurrences(rejectedRequirements, name) = 0
    /\ aiPc = "returned" =>
          /\ Len(batchLog) * batchSize >= Len(genEdRequirements)
          /\ \A k \in DOMAIN batchLog : batchLog[k].start = (k - 1) * batchSize
          /\ aiResult.approvedRequirements = ContributedApproved
          /\ aiResult.rejectedRequirements = ContributedRejected
    /\ apiKey => aiPc # "thrown"

\* the first batch returned unparsable output, the second was answered and both of
\* its requirements are in the result
C7_Witness ==
    /\ aiPc = "returned"
    /\ Len(batchLog) = 2
    /\ batchLog[1].response.kind = "unparsable"
    /\ batchLog[2].response.kind = "json"
    /\ Names(aiResult.approvedRequirements) = <<"Ethics">>
    /\ Names(aiResult.rejectedRequirements) = <<"Synthetic Requirement">>

(***************************************************************************)
(* Properties of the fit ranker (checked under SpecFit)                    *)
(***************************************************************************)

\* how a completion call of the analysis ended
OutcomeOf(call) ==
    LET k == CHOOSE k \in DOMAIN callLog : callLog[k].call = call
    IN  callLog[k].outcome

Called(call) == \E k \in DOMAIN callLog : callLog[k].call = call

ExtractionFailed == Called("extract") /\ OutcomeOf("extract") = "throws"
RankingFailed == rankResponse.kind \in {"throws", "unparsable"}

\* every best-fit entry of the ranking response is a fit with its two SLO lists
BestFitsWellFormed ==
    \A k \in DOMAIN OrEmptyArray(rankResponse.bestFits) :
        OrEmptyArray(rankResponse.bestFits)[k].hasSLOLists

\* C8 as stated: if the outcome extraction or the ranking call fails, the ranker
\* returns bestFit undefined, potentialFits empty and poorFits empty.
C8_EitherFailureGivesNoFits ==
    aiPc = "returned" /\ (ExtractionFailed \/ RankingFailed) => fitResults = NoFits

\* C8: if the ranking call throws or returns unparsable JSON, the ranker returns
\* bestFit undefined and empty potentialFits and poorFits; a failure of the outcome
\* extraction alone is absorbed: the ranking goes on with a placeholder text and
\* the result is the one the ranking response gives.
C8_RankingFailureGivesNoFits ==
    aiPc = "returned" =>
        /\ RankingFailed => fitResults = NoFits
        /\ extractedSLOs = ExtractionError <=> ExtractionFailed
        /\ ExtractionFailed /\ rankResponse.kind = "json" /\ BestFitsWellFormed =>
              LET best == OrEmptyArray(rankResponse.bestFits)
              IN  /\ fitResults.bestFit = (IF Len(best) > 0 THEN Present(best[1]) ELSE Absent)
                  /\ fitResults.poorFits = OrEmptyArray(rankResponse.poorFits)
                  /\ Len(fitResults.potentialFits) >= Len(OrEmptyArray(rankResponse.potentialFits))

\* the extraction call threw and the ranking still produced a best fit
C8_Witness ==
    /\ aiPc = "returned"
    /\ ExtractionFailed
    /\ rankResponse.kind = "json"
    /\ fitResults.bestFit = Present(FitA)
    /\ fitResults.poorFits = <<FitD>>

\* C9: for a ranking response whose bestFits is [A, B] (A and B fits with their SLO
\* lists), bestFit is A, potentialFits is B followed by the response's
\* potentialFits in order, and poorFits is the response's poorFits; with a single
\* best entry A, bestFit is A and potentialFits is the response's list; with no
\* best entry, bestFit is undefined.
C9_BestFitReshaping ==
    aiPc = "returned" /\ rankResponse.kind = "json" /\ BestFitsWellFormed =>
        LET best == OrEmptyArray(rankResponse.bestFits)
            potential == OrEmptyArray(rankResponse.potentialFits)
            poor == OrEmptyArray(rankResponse.poorFits)
        IN  /\ Len(best) = 2 =>
                  /\ fitResults.bestFit = Present(best[1])
                  /\ fitResults.potentialFits = <<best[2]>> \o potential
                  /\ fitResults.poorFits = poor
            /\ Len(best) = 1 =>
                  /\ fitResults.bestFit = Present(best[1])
                  /\ fitResults.potentialFits = potential
                  /\ fitResults.poorFits = poor
            /\ Len(best) = 0 =>
                  /\ fitResults.bestFit = Absent
                  /\ fitResults.potentialFits = potential
            /\ aiResult.bestFit = fitResults.bestFit
            /\ aiResult.potentialFits = Present(fitResults.potentialFits)
            /\ aiResult.poorFits = Present(fitResults.poorFits)

\* two best entries A (95) and B (91) ahead of two potential fits
C9_Witness ==
    /\ aiPc = "returned"
    /\ rankResponse.kind = "json"
    /\ rankResponse.bestFits = Present(<<FitA, FitB>>)
    /\ rankResponse.potentialFits = Present(<<FitC, FitD>>)
    /\ fitResults.bestFit = Present(FitA)
    /\ fitResults.potentialFits = <<FitB, FitC, FitD>>


\* how many times a fit entry is in a list
FitCount(list, fit) == Cardinality({k \in DOMAIN list : list[k] = fit})

\* C30: the reshaping loses no entry: every fit of a ranking response that was
\* parsed and handled without a throw, whether in bestFits, potentialFits or
\* poorFits and however many entries bestFits has, is in the result as often as
\* in the response, as bestFit, in potentialFits or in poorFits.
C30_ReshapingLosesNoEntry ==
    aiPc = "returned" /\ rankResponse.kind = "json" /\ BestFitsWellFormed =>
        LET given == OrEmptyArray(rankResponse.bestFits)
                     \o OrEmptyArray(rankResponse.potentialFits)
                     \o OrEmptyArray(rankResponse.poorFits)
            kept == (IF fitResults.bestFit.present THEN <<fitResults.bestFit.value>>
                     ELSE <<>>)
                    \o fitResults.potentialFits \o fitResults.poorFits
        IN  \A fit \in Range(given) : FitCount(kept, fit) = FitCount(given, fit)

\* the same for responses with at most two best fits
TwoBestFitsAreKept ==
    Len(OrEmptyArray(rankResponse.bestFits)) <= 2 => C30_ReshapingLosesNoEntry

(***************************************************************************)
(* Properties of the semantic matcher as a whole (C15 under SpecAI, the    *)
(* others under SpecFit)                                                   *)
(***************************************************************************)

\* the evidence the batch prompt asks for: the text says the course is housed in a
\* philosophy department or carries a PHIL course code
EvidencesPhilosophy(text) ==
    includes(toLowerCase(text), <<"p","h","i","l","o","s","o","p","h","y"," ","d","e","p","a","r","t","m","e","n","t">>) \/ includes(text, <<"P","H","I","L">>)

\* C15: on the semantic path "Ethics" / "Ethical Reasoning" is in
\* approvedRequirements only when the syllabus evidences a philosophy-department
\* course, whatever status the completion service returns for it.
C15_EthicsOnlyForPhilosophy ==
    (\E k \in DOMAIN approvedRequirements :
        approvedRequirements[k].name \in {"Ethics", "Ethical Reasoning"})
    => EvidencesPhilosophy(syllabusText)

\* the catalog requirement of a name
RequirementNamed(name) == CHOOSE r \in Range(genEdRequirements) : r.name = name

\* the SLO numbers of a list are numbers of SLOs of the requirement
IndicesInRange(name, indices) ==
    /\ name \in CatalogNames
    /\ \A k \in DOMAIN indices : indices[k] \in 1..Len(RequirementNamed(name).slos)

\* the fit entries of a result
FitEntries(fits) ==
    (IF fits.bestFit.present THEN {fits.bestFit.value} ELSE {})
    \cup Range(fits.potentialFits) \cup Range(fits.poorFits)

\* C16: every SLO index in the output of an analysis (matchingSLOs of an approved
\* entry, missingSLOs of a rejected entry, both lists of a fit entry) lies within
\* 1..len(slos) of the requirement the entry names.
C16_SLOIndicesInRange ==
    /\ \A k \in DOMAIN approvedRequirements :
          IndicesInRange(approvedRequirements[k].name, approvedRequirements[k].matchingSLOs)
    /\ \A k \in DOMAIN rejectedRequirements :
          IndicesInRange(rejectedRequirements[k].name, rejectedRequirements[k].missingSLOs)
    /\ \A fit \in FitEntries(fitResults) :
          /\ IndicesInRange(fit.name, fit.matchingSLOs)
          /\ IndicesInRange(fit.name, fit.missingSLOs)

\* the marker phrase and the synthesized explanation of the special rule of a name
SpecialRules ==
    {[names |-> {"Ethics", "Ethical Reasoning"}, marker |-> <<"p","h","i","l","o","s","o","p","h","y"," ","d","e","p","a","r","t","m","e","n","t">>,
      explanation |-> PhilosophyExplanation],
     [names |-> {"Modern Language"}, marker |-> <<"n","o","n","-","E","n","g","l","i","s","h"," ","l","a","n","g","u","a","g","e">>,
      explanation |-> LanguageExplanation],
     [names |-> {"Creativity and Making"}, marker |-> <<"m","o","r","e"," ","t","h","a","n"," ","h","a","l","f">>,
      explanation |-> CreativityExplanation]}

\* the NOT MET items of the batches answered so far, in order; none of a batch
\* whose handling threw (no results, or an item that is null)
RejectedItems ==
    LET IsNotMet(item) == item.status # "MET"
        IsNull(item) == ~item.isObject
    IN  Concat([b \in DOMAIN batchLog |->
                  IF \/ BatchFailed(batchLog[b])
                     \/ ~batchLog[b].response.results.present
                     \/ SelectSeq(batchLog[b].response.results.value, IsNull) # <<>>
                  THEN <<>>
                  ELSE SelectSeq(batchLog[b].response.results.value, IsNotMet)])

\* how often a string occurs in a list
TimesIn(list, string) == Cardinality({k \in DOMAIN list : list[k] = string})

\* C20: on the semantic path the rejected entry of "Ethics" / "Ethical Reasoning",
\* "Modern Language" or "Creativity and Making" carries the elements the service
\* returned, in order, followed by the synthesized explanation of its rule exactly
\* when none of them contains the rule's marker phrase, so the explanation is
\* there at most once; the rejected entries of the other requirements are as
\* returned.
C20_RejectedEntriesExplained ==
    /\ Len(rejectedRequirements) = Len(RejectedItems)
    /\ \A k \in DOMAIN rejectedRequirements :
          LET entry == rejectedRequirements[k]
              returned == OrEmptyArray(RejectedItems[k].missingElements)
          IN  /\ entry.name = RejectedItems[k].requirement
              /\ SubSeq(entry.missingRequirements, 1, Len(returned)) = returned
              /\ \A rule \in SpecialRules :
                    entry.name \in rule.names =>
                        /\ TimesIn(entry.missingRequirements, rule.explanation) <= 1
                        /\ IF SomeIncludes(returned, rule.marker)
                           THEN entry.missingRequirements = returned
                           ELSE entry.missingRequirements = returned \o <<rule.explanation>>
              /\ (\A rule \in SpecialRules : entry.name \notin rule.names) =>
                    entry.missingRequirements = returned

\* both batches were answered: "Modern Language" carries the returned element
\* followed by the explanation, "Ethics" was returned with an element that names
\* its rule and is left as returned, "Ethical Reasoning" was returned without
\* elements and carries the explanation alone
C20_Witness ==
    /\ aiPc = "returned"
    /\ \E k \in DOMAIN rejectedRequirements :
          /\ rejectedRequirements[k].name = "Modern Language"
          /\ rejectedRequirements[k].missingRequirements
                = <<ModernLanguage.requiredElements[2], LanguageExplanation>>
    /\ \E k \in DOMAIN rejectedRequirements :
          /\ rejectedRequirements[k].name = "Ethics"
          /\ Len(rejectedRequirements[k].missingRequirements) = 2
          /\ includes(rejectedRequirements[k].missingRequirements[1], <<"p","h","i","l","o","s","o","p","h","y"," ","d","e","p","a","r","t","m","e","n","t">>)
    /\ \E k \in DOMAIN rejectedRequirements :
          /\ rejectedRequirements[k].name = "Ethical Reasoning"
          /\ rejectedRequirements[k].missingRequirements = <<PhilosophyExplanation>>

\* the course-identification call threw or its output could not be parsed
CourseIdentificationFailed ==
    Called("courseInfo") /\ OutcomeOf("courseInfo") \in {"throws", "unparsable"}

\* the batch calls made so far are those of the loop, in order
BatchStartsLogged == [k \in DOMAIN batchLog |-> batchLog[k].start]
AllBatchStarts ==
    [k \in 1..((Len(genEdRequirements) + batchSize - 1) \div batchSize) |-> (k - 1) * batchSize]

\* C13: a failure of the course-identification call (throw or unparsable output)
\* never aborts the semantic analysis: the name is "Unknown Course", the code is
\* empty, analyzeWithOpenAI does not throw, and when it returns every batch call,
\* the outcome extraction and the ranking call have been made.
C13_CourseIdentificationNeverAborts ==
    CourseIdentificationFailed =>
        /\ courseInfo = [name |-> UnknownCourse, code |-> <<>>]
        /\ aiPc \in {"batch", "extract", "rank", "returned"}
        /\ aiPc = "returned" =>
              /\ aiResult.courseName = UnknownCourse
              /\ aiResult.courseCode = <<>>
              /\ BatchStartsLogged = AllBatchStarts
              /\ Called("extract") /\ Called("rank")
              /\ aiResult.approvedRequirements = approvedRequirements
              /\ aiResult.rejectedRequirements = rejectedRequirements

\* the course-identification call threw, both batches were answered and the
\* ranking produced a best fit
C13_Witness ==
    /\ aiPc = "returned"
    /\ OutcomeOf("courseInfo") = "throws"
    /\ aiResult.courseName = UnknownCourse
    /\ \A k \in DOMAIN batchLog : ~BatchFailed(batchLog[k])
    /\ Len(batchLog) = 2
    /\ aiResult.bestFit.present

CeilDiv(n, d) == (n + d - 1) \div d

\* the batches the loop cuts a catalog into
BatchesOf(catalog) ==
    [k \in DOMAIN batchStarts(Len(catalog)) |->
        slice(catalog, batchStarts(Len(catalog))[k], batchStarts(Len(catalog))[k] + batchSize)]

\* the completion calls of the analysis made for batches
BatchCalls ==
    LET IsBatchCall(entry) == entry.call = "batch"
    IN  SelectSeq(callLog, IsBatchCall)

\* C21: the batch loop cuts a catalog of n requirements into ceil(n/3) consecutive
\* batches of three, the last one possibly smaller, that hold every requirement
\* exactly once; an analysis issues one completion request per batch, in catalog
\* order, whether the request succeeds or fails, and never a second one for the
\* same batch.
C21_OneRequestPerBatch ==
    /\ \A n \in 0..Len(genEdRequirements) :
          LET catalog == SubSeq(genEdRequirements, 1, n)
              batches == BatchesOf(catalog)
          IN  /\ Len(batches) = CeilDiv(n, batchSize)
              /\ Concat(batches) = catalog
              /\ \A k \in DOMAIN batches :
                    Len(batches[k]) = IF k < Len(batches) THEN batchSize
                                      ELSE n - (k - 1) * batchSize
    /\ Len(batchLog) <= CeilDiv(Len(genEdRequirements), batchSize)
    /\ \A k \in DOMAIN batchLog : batchLog[k].start = (k - 1) * batchSize
    /\ Len(BatchCalls) = Len(batchLog)
    /\ aiPc = "batch" => batchIndex = Len(batchLog) * batchSize
    /\ aiPc \in {"extract", "rank", "returned"} =>
          /\ BatchStartsLogged = batchStarts(Len(genEdRequirements))
          /\ Len(batchLog) = CeilDiv(Len(genEdRequirements), batchSize)
          /\ Concat([k \in DOMAIN batchLog |-> requirementsBatch(batchLog[k].start)])
                = genEdRequirements

\* the request for the first batch of three failed, the request for the second
\* batch of two was answered, and the analysis returned after these two requests
C21_Witness ==
    /\ aiPc = "returned"
    /\ Len(BatchCalls) = 2
    /\ batchLog[1].response.kind = "throws"
    /\ batchLog[2].response.kind = "json"
    /\ Len(requirementsBatch(batchLog[1].start)) = 3
    /\ Len(requirementsBatch(batchLog[2].start)) = 2

\* the orders in which the batches requested so far can be taken
BatchOrders ==
    {order \in [DOMAIN batchLog -> DOMAIN batchLog] :
        \A j, k \in DOMAIN batchLog : j # k => order[j] # order[k]}

\* the lists after the batches of the log are processed in an order, each with
\* the response it got
RECURSIVE ProcessedInOrder(_, _)
ProcessedInOrder(order, lists) ==
    IF Len(order) = 0 THEN lists
    ELSE ProcessedInOrder(
             Tail(order),
             pushBatch(lists, batchLog[Head(order)].start,
                       processRequirementsBatch(batchLog[Head(order)].response)))

NoLists == [approved |-> <<>>, rejected |-> <<>>]

\* C23: what a batch adds to the lists is determined by its own completion
\* response, whatever the other batches answered and whether they failed;
\* processing the batches requested so far with the responses they got, in any
\* order, gives the approved and rejected entries the analysis holds, as sets and
\* in number.
C23_BatchOrderIndependence ==
    aiPc \in {"batch", "extract", "rank", "returned"} =>
        /\ \A order \in BatchOrders :
              LET lists == ProcessedInOrder(order, NoLists)
              IN  /\ Range(lists.approved) = Range(approvedRequirements)
                  /\ Range(lists.rejected) = Range(rejectedRequirements)
                  /\ Len(lists.approved) = Len(approvedRequirements)
                  /\ Len(lists.rejected) = Len(rejectedRequirements)
        /\ \A k \in DOMAIN batchLog :
              LET own == ProcessedInOrder(<<k>>, NoLists)
              IN  /\ Range(own.approved) \subseteq Range(approvedRequirements)
                  /\ Range(own.rejected) \subseteq Range(rejectedRequirements)

\* the first batch was answered and the second failed: taken in the other order
\* the failure comes first, and the entries of the first batch are there all the same
C23_Witness ==
    /\ aiPc = "returned"
    /\ Len(batchLog) = 2
    /\ batchLog[1].response.kind = "json" /\ batchLog[1].response.results.present
    /\ batchLog[2].response.kind = "throws"
    /\ Len(approvedRequirements) = 1
    /\ Len(rejectedRequirements) = 2
    /\ Cardinality(BatchOrders) = 2

\* the step that requests a batch and handles its response
BatchStep == Len(batchLog') = Len(batchLog) + 1

\* the items of the response the step got, none when it carries no results
ItemsAnswered ==
    LET r == batchLog'[Len(batchLog')].response
    IN  IF r.kind = "json" /\ r.results.present THEN r.results.value ELSE <<>>

\* the entries a step added to a list
Added(old, new) == SubSeq(new, Len(old) + 1, Len(new))

\* C28: a batch adds to the lists either one entry for every item of its response,
\* MET items to approvedRequirements and the others to rejectedRequirements in the
\* order of the response, or nothing at all; when handling the response throws
\* part-way, on an item that is null after valid ones, it adds nothing, and no
\* such entry is in the lists the analysis returns.
C28_BatchAtomicity ==
    /\ [][BatchStep =>
             LET items == ItemsAnswered
                 IsMet(item) == item.status = "MET"
                 IsNotMet(item) == item.status # "MET"
                 sound == \A k \in DOMAIN items : items[k].isObject
             IN  /\ IsPrefix(approvedRequirements, approvedRequirements')
                 /\ IsPrefix(rejectedRequirements, rejectedRequirements')
                 /\ sound =>
                       /\ Names(Added(approvedRequirements, approvedRequirements'))
                             = [k \in DOMAIN SelectSeq(items, IsMet) |->
                                   SelectSeq(items, IsMet)[k].requirement]
                       /\ Names(Added(rejectedRequirements, rejectedRequirements'))
                             = [k \in DOMAIN SelectSeq(items, IsNotMet) |->
                                   SelectSeq(items, IsNotMet)[k].requirement]
                 /\ ~sound =>
                       UNCHANGED <<approvedRequirements, rejectedRequirements>>
         ]_vars
    /\ [][~BatchStep /\ aiPc \in {"batch", "extract", "rank"} =>
             UNCHANGED <<approvedRequirements, rejectedRequirements>>]_vars
    /\ [](aiPc = "returned" =>
             /\ aiResult.approvedRequirements = approvedRequirements
             /\ aiResult.rejectedRequirements = rejectedRequirements)

\* the response to the first batch carried three valid items and then null: the
\* analysis returned with the entries of the second batch only
C28_Witness ==
    /\ aiPc = "returned"
    /\ Len(batchLog) = 2
    /\ batchLog[1].response.kind = "json"
    /\ batchLog[1].response.results.present
    /\ Len(batchLog[1].response.results.value) = 4
    /\ batchLog[1].response.results.value[1].isObject
    /\ ~batchLog[1].response.results.value[4].isObject
    /\ Names(aiResult.approvedRequirements) = <<"Ethics">>
    /\ Names(aiResult.rejectedRequirements) = <<"Synthetic Requirement">>
    /\ aiResult.rejectedRequirements[1].missingSLOs = <<2>>

\* C29: every entry a batch response produces names a requirement of the
\* catalog, one of the batch the response answers, and a batch produces at most
\* one entry for each of its requirements; so every name in the lists of the
\* analysis is a name of the catalog.
C29_EntriesNameOwnRequirements ==
    /\ \A k \in DOMAIN batchLog :
          LET outcome == processRequirementsBatch(batchLog[k].response)
              entries == outcome.approved \o outcome.rejected
          IN  /\ Range(Names(entries)) \subseteq CatalogNames
              /\ Range(Names(entries)) \subseteq BatchNames(batchLog[k].start)
              /\ \A name \in BatchNames(batchLog[k].start) : Occurrences(entries, name) <= 1
    /\ Range(Names(approvedRequirements)) \subseteq CatalogNames
    /\ Range(Names(rejectedRequirements)) \subseteq CatalogNames

(***************************************************************************)
(* Properties of the routes (C14 and C22 under SpecRank, C26 under         *)
(* SpecCleanup, the others under Spec)                                     *)
(***************************************************************************)

SameLists(analysis, keywordResult) ==
    /\ analysis.approvedRequirements = keywordResult.approvedRequirements
    /\ analysis.rejectedRequirements = keywordResult.rejectedRequirements

\* the analyses the handler has answered or is about to answer with
AnsweredEntries == Range(results) \cup Range(response.analysis) \cup Range(response.success)

\* the step in which the handler learns how analyzeWithOpenAI ended
AnalysisEnds == routePc = "analyzing" /\ routePc' = "store"

\* the step in which the handler stores and answers the analysis of a sound file
AnalysisStored == routePc = "store" /\ routePc' # "store" /\ files[fileIndex].fault = "none"

\* the entry the handler has just answered with
NewEntry == IF route = "single" THEN response'.analysis[1] ELSE results'[Len(results')]

\* C5: when analyzeWithOpenAI throws, the analysis still completes without error,
\* with analysisMethod "keyword" and exactly the approved and rejected lists of
\* analyzeGenEdRequirements on the same text; when it does not throw,
\* analysisMethod is "ai".
C5_FallbackOnThrow ==
    /\ [][/\ AnalysisEnds =>
                IF aiPc = "thrown"
                THEN /\ analysisMethod' = "keyword"
                     /\ SameLists(analysisResult', analyzeGenEdRequirements(syllabusText))
                ELSE aiPc = "returned" /\ analysisMethod' = "ai"
          /\ AnalysisStored =>
                /\ IF route = "single"
                   THEN response'.status = 200 /\ Len(response'.analysis) = 1
                   ELSE Len(results') = Len(results) + 1 /\ errors' = errors
                /\ NewEntry.fileName = fileIndex
                /\ NewEntry.analysisMethod = analysisMethod
                /\ SameLists(NewEntry, analysisResult)
          /\ SubSeq(results', 1, Len(results)) = results
          /\ routePc = "store" =>
                syllabusText = extractTextFromDocument(files[fileIndex]).text
         ]_vars
    /\ [](/\ routePc = "store" => analysisMethod = (IF aiPc = "thrown" THEN "keyword" ELSE "ai")
          /\ \A entry \in AnsweredEntries :
                entry.analysisMethod = (IF apiKey THEN "ai" ELSE "keyword")
          /\ routePc = "responded" /\ route = "multi" /\ Len(files) > 0 =>
                response.status = 200 /\ response.success = results
          /\ routePc = "responded" /\ ~apiKey =>
                \A k \in DOMAIN files :
                    files[k].fault = "none" =>
                        /\ response.status = 200
                        /\ \E entry \in Range(response.analysis) \cup Range(response.success) :
                              entry.fileName = k /\ entry.analysisMethod = "keyword"
                        /\ \A j \in DOMAIN response.errors : response.errors[j].fileName # k)

\* without a credential, both files of a request are answered by the deterministic
\* matcher, which approves the synthetic requirement for the first
C5_Witness ==
    /\ routePc = "responded"
    /\ route = "multi"
    /\ ~apiKey
    /\ response.status = 200
    /\ Len(response.success) = 2
    /\ response.success[1].analysisMethod = "keyword"
    /\ Names(response.success[1].approvedRequirements) = <<"Synthetic Requirement">>
    /\ Len(response.success[2].rejectedRequirements) = Len(genEdRequirements)

\* C6: if every completion call of an analysis fails (course identification, every
\* batch, outcome extraction and ranking), the result is tagged "keyword" and
\* carries the lists of the deterministic matcher.
C6_FallbackWhenEveryCallFails ==
    /\ routePc = "store"
    /\ Len(callLog) > 0
    /\ \A k \in DOMAIN callLog : callLog[k].outcome = "throws"
    => /\ analysisMethod = "keyword"
       /\ SameLists(analysisResult, analyzeGenEdRequirements(syllabusText))

\* the course fields of the form about an answered or stored analysis
FieldsAbout(entry) == UserFields(entry.fileName)

\* C10: in both routes a course name or course code the user supplied, an empty
\* string included, is the value stored and returned.
C10_UserSuppliedWins ==
    \A entry \in AnsweredEntries \cup Range(storage) :
        /\ FieldsAbout(entry).courseName.present =>
              entry.courseName = FieldsAbout(entry).courseName.value
        /\ FieldsAbout(entry).courseCode.present =>
              entry.courseCode = FieldsAbout(entry).courseCode.value

\* the text extraction of the k-th file of the request throws
ExtractionThrows(k) == extractTextFromDocument(files[k]).threw

\* the entries of a list of the response that are about the k-th file
EntriesNamed(list, k) == {i \in DOMAIN list : list[i].fileName = files[k].originalname}

\* the step in which the handler of /api/analyze-multiple takes the next file
TakesNextFile == route = "multi" /\ fileIndex' = fileIndex + 1

\* C11: in /api/analyze-multiple a file whose text extraction throws yields exactly
\* one entry of errors with its name and no entry of success; the step that
\* records it changes nothing else of what the request has produced, the loop goes
\* on, every other file starts from fresh locals and gets its own entry, success
\* and errors together hold one entry per file, and the answer is HTTP 200.
C11_MultiFileIsolation ==
    /\ [][/\ TakesNextFile /\ ExtractionThrows(fileIndex + 1) =>
                /\ errors' = Append(errors, [fileName |-> files[fileIndex + 1].originalname])
                /\ routePc' = "nextFile"
                /\ UNCHANGED <<results, storage, documents, response>>
          /\ TakesNextFile /\ ~ExtractionThrows(fileIndex + 1) =>
                /\ AiLocalsCleared'
                /\ syllabusText' = extractTextFromDocument(files[fileIndex + 1]).text
                /\ analysisMethod' = "keyword"
                /\ UNCHANGED <<results, errors, storage, response>>
          /\ IsPrefix(results, results') /\ IsPrefix(errors, errors')
          /\ IsPrefix(storage, storage')
         ]_vars
    /\ [](route = "multi" /\ routePc = "responded" /\ Len(files) > 0 =>
             /\ response.status = 200
             /\ Len(response.success) + Len(response.errors) = Len(files)
             /\ \A k \in DOMAIN files :
                   /\ Cardinality(EntriesNamed(response.success, k))
                        + Cardinality(EntriesNamed(response.errors, k)) = 1
                   /\ ExtractionThrows(k) => EntriesNamed(response.success, k) = {}
                   /\ ~ExtractionThrows(k) /\ files[k].fault # "storage" =>
                         EntriesNamed(response.errors, k) = {})

\* the first of two files cannot be read, the second is analysed and answered
C11_Witness ==
    /\ route = "multi"
    /\ routePc = "responded"
    /\ Len(files) = 2
    /\ ExtractionThrows(1)
    /\ response.status = 200
    /\ Len(response.errors) = 1 /\ response.errors[1].fileName = 1
    /\ Len(response.success) = 1 /\ response.success[1].fileName = 2
    /\ Len(storage) = 1

\* the content of the k-th file is one the extraction library cannot parse
Malformed(k) == files[k].fault = "unreadable"

\* C12: a document whose text extraction fails (PDF as well as DOC/DOCX) is never
\* analysed and stored: no analysis of it is persisted or answered, in multi-file
\* mode it has an entry of errors, in single-file mode the request fails.
C12_MalformedDocumentIsFatal ==
    \A k \in DOMAIN files :
        Malformed(k) =>
            /\ \A entry \in AnsweredEntries \cup Range(storage) :
                  entry.fileName # files[k].originalname
            /\ routePc = "responded" =>
                  IF route = "single" THEN response.status = 500
                  ELSE EntriesNamed(response.errors, k) # {}

\* the ranking pass failed: the call threw, its output could not be parsed, or a
\* best-fit entry lacked its SLO lists
RankingPassFailed == Called("rank") /\ (RankingFailed \/ ~BestFitsWellFormed)

\* the step in which the ranking call is answered
RankingAnswered == aiPc = "rank" /\ aiPc' # "rank"

\* C14: a failure of the ranking pass leaves the rest of the analysis untouched:
\* analyzeWithOpenAI returns with the approved and rejected lists and the course
\* name and code computed before the ranking, the deterministic fallback does not
\* run and analysisMethod stays "ai".
C14_RankingFailureFrame ==
    /\ [][RankingAnswered /\ RankingPassFailed' =>
             /\ aiPc' = "returned"
             /\ fitResults' = NoFits
             /\ UNCHANGED <<approvedRequirements, rejectedRequirements, courseInfo>>
             /\ aiResult'.approvedRequirements = approvedRequirements
             /\ aiResult'.rejectedRequirements = rejectedRequirements
             /\ aiResult'.courseName = courseInfo.name
             /\ aiResult'.courseCode = courseInfo.code
         ]_vars
    /\ [](RankingPassFailed =>
             /\ aiPc = "returned"
             /\ routePc \in {"store", "responded"} =>
                   /\ analysisMethod = "ai"
                   /\ analysisResult = aiResult
             /\ \A entry \in AnsweredEntries :
                   /\ entry.analysisMethod = "ai"
                   /\ SameLists(entry, aiResult)
                   /\ entry.bestFit = Absent)

\* the ranking call threw after a batch was answered: the analysis is answered as
\* an "ai" analysis with its approved requirements and no fits
C14_Witness ==
    /\ routePc = "responded"
    /\ response.status = 200
    /\ rankResponse.kind = "throws"
    /\ Len(response.analysis) = 1
    /\ response.analysis[1].analysisMethod = "ai"
    /\ Len(response.analysis[1].approvedRequirements) > 0
    /\ response.analysis[1].bestFit = Absent

\* the completion calls of one analysis in the order the code awaits them
PipelineCalls ==
    <<"courseInfo">>
    \o [k \in 1..CeilDiv(Len(genEdRequirements), batchSize) |-> "batch"]
    \o <<"extract", "rank">>

CallsMade == [k \in DOMAIN callLog |-> callLog[k].call]

\* the step in which storage.createAnalysis saves an analysis
Persists == storage' # storage

\* C22: a document goes through one sequential pipeline.  The completion calls
\* are made one at a time, each one after the previous one has returned or
\* failed, in the order course identification, batch 1, batch 2, ..., outcome
\* extraction, ranking; the ranking prompt names the requirements approved and
\* rejected by all the batches that were answered; and an analysis of the semantic
\* matcher is saved only after the ranking call has returned or failed.
C22_SequentialPipeline ==
    /\ [](/\ IsPrefix(CallsMade, PipelineCalls)
          /\ aiPc = "batch" => Len(callLog) = 1 + Len(batchLog)
          /\ aiPc = "extract" => Len(callLog) = Len(PipelineCalls) - 2
          /\ Called("rank") <=> rankPrompt # NoRankPrompt
          /\ Called("rank") =>
                /\ Len(batchLog) = CeilDiv(Len(genEdRequirements), batchSize)
                /\ rankPrompt = [passed |-> joinedOrNone(ContributedApproved),
                                 failed |-> joinedOrNone(ContributedRejected)])
    /\ [][/\ callLog' # callLog =>
                \/ callLog' = <<>>
                \/ /\ Len(callLog') = Len(callLog) + 1
                   /\ SubSeq(callLog', 1, Len(callLog)) = callLog
          /\ Persists =>
                /\ routePc = "store"
                /\ Len(storage') = Len(storage) + 1
                /\ IF apiKey
                   THEN /\ CallsMade = PipelineCalls
                        /\ aiPc = "returned"
                        /\ analysisMethod = "ai"
                        /\ SameLists(storage'[Len(storage')], aiResult)
                   ELSE /\ callLog = <<>>
                        /\ analysisMethod = "keyword"
         ]_vars

\* the first batch failed, the second was answered, the ranking prompt named the
\* requirements of the second batch only, and the analysis was saved and answered
C22_Witness ==
    /\ routePc = "responded"
    /\ response.status = 200
    /\ Len(storage) = 1
    /\ CallsMade = PipelineCalls
    /\ batchLog[1].response.kind = "unparsable"
    /\ rankPrompt = [passed |-> <<"Ethics">>, failed |-> <<"Synthetic Requirement">>]
    /\ rankResponse.kind = "json"

\* the analyses saved for the k-th file of the request
SavedFor(k) == {i \in DOMAIN storage : storage[i].fileName = files[k].originalname}

\* C26: in the answer of /api/analyze-multiple, whatever happened to a file at any
\* step, the removal of its upload after the analysis was saved included, no file
\* is in both success and errors, and a file in errors has no saved analysis.
C26_SuccessAndErrorsExclusive ==
    route = "multi" /\ routePc = "responded" =>
        \A k \in DOMAIN files :
            /\ EntriesNamed(response.success, k) = {} \/ EntriesNamed(response.errors, k) = {}
            /\ EntriesNamed(response.errors, k) # {} => SavedFor(k) = {}

\* C27: once a request to /api/analyze or /api/analyze-multiple is answered, with
\* a success or with an error at any step, the temporary upload of every file of
\* the request has been removed.
C27_UploadsRemovedWhenAnswered ==
    routePc = "responded" => tempFiles = {}

\* the same for /api/analyze-multiple alone
MultipleRemovesUploads ==
    route = "multi" /\ routePc = "responded" => tempFiles = {}

=============================================================================
